---- MODULE Spec2Model ----
(***************************************************************************)
(* Route planner: the weighted road graph, the priority frontier, the      *)
(* search strategies BFS, DFS, UCS, Greedy, A*, IDA*, IDS and the          *)
(* RoutePlanner that runs and compares them.                               *)
(*                                                                         *)
(* Distances are whole miles.  A Python dict is a function on its keys; a  *)
(* dict that the code iterates (the neighbours of a city) is a sequence of *)
(* <<key, value>> pairs in insertion order.  math.inf is Inf.              *)
(***************************************************************************)
EXTENDS Integers, Sequences, FiniteSets, TLC

VARIABLES cities, adjacency, run, planner, pq, log

vars == <<cities, adjacency, run, planner, pq, log>>

----------------------------------------------------------------------------
(* Bounds of the model *)

\* the largest number of add_edge calls that build a graph
MaxEdges == 4
\* the runtimes a timer may report are 0..MaxRuntime
MaxRuntime == 1
\* the largest number of names selected for a comparison
MaxSelected == 3
\* the largest number of results a ComparisonResult is constructed with
MaxResults == 2
\* the largest number of push calls on a queue that a caller uses by itself
MaxPushes == 4
\* the largest number of add_city and add_edge calls of a caller that builds a graph
MaxCalls == 3

MaxRoads == 3

MaxWorkers == 2

\* search() is called at most this many times on one instance
MaxSearches == 2

(* Program constants *)

\* math.inf: larger than every path cost of the model
Inf == 1000000
\* the depth cap of IDS.search
DepthCap == 50

----------------------------------------------------------------------------
(* Python dicts *)

EmptyDict == [k \in {} |-> k]

Get(d, k, default) == IF k \in DOMAIN d THEN d[k] ELSE default

Put(d, k, v) == [x \in (DOMAIN d) \cup {k} |-> IF x = k THEN v ELSE d[x]]

\* an insertion-ordered dict: d[k] = v keeps the place of a key it already holds
HasKey(items, k) == \E i \in 1..Len(items) : items[i][1] = k

SetItem(items, k, v) ==
    IF HasKey(items, k)
    THEN [i \in 1..Len(items) |-> IF items[i][1] = k THEN <<k, v>> ELSE items[i]]
    ELSE Append(items, <<k, v>>)

Lookup(items, k) == (CHOOSE i \in 1..Len(items) : items[i][1] = k)

ItemValue(items, k) == items[Lookup(items, k)][2]

SeqToSet(sq) == {sq[i] : i \in 1..Len(sq)}

Abs(x) == IF x < 0 THEN -x ELSE x

----------------------------------------------------------------------------
(* Graph (heartofitall/graph.py) *)

CityNames == {"A", "B", "C", "D"}

\* reading adjacency[a] of the defaultdict creates the key a
Touch(adj, a) == IF a \in DOMAIN adj THEN adj ELSE Put(adj, a, <<>>)

add_city(cs, name, lat, lon) == Put(cs, name, <<lat, lon>>)

\* add_edge that stores the direction from a to b alone
add_edge_one_way(adj, a, b, d, bidirectional) ==
    [Touch(adj, a) EXCEPT ![a] = SetItem(@, b, d)]

add_edge(adj, a, b, d, bidirectional) ==
    LET ta == Touch(adj, a)
        one == [ta EXCEPT ![a] = SetItem(@, b, d)]
        tb == Touch(one, b)
    IN  IF bidirectional THEN [tb EXCEPT ![b] = SetItem(@, a, d)] ELSE one

\* self.adjacency.get(city, {}) creates no key
get_neighbors(adj, city) == Get(adj, city, <<>>)

\* dict.get raises for no name, and leaves the dict as it is
get_neighbors_raises(adj, city) == FALSE

\* self.adjacency[city], the read that makes a defaultdict grow a key
get_neighbors_touch(adj, city) == Touch(adj, city)

get_neighbors_effect(adj, city) == adj

\* self.adjacency[a][b]: the value, whether it raises KeyError, and the graph it leaves
get_distance_raises(adj, a, b) == ~HasKey(Get(adj, a, <<>>), b)

get_distance(adj, a, b) == ItemValue(adj[a], b)

\* a lookup that takes the row of a out of the adjacency
get_distance_pop(adj, a) == [k \in (DOMAIN adj) \ {a} |-> adj[k]]

get_distance_effect(adj, a) == Touch(adj, a)

get_coordinates_raises(cs, city) == city \notin DOMAIN cs

get_coordinates(cs, city) == cs[city]

\* a Graph in the hands of a caller: the last call on it with its argument and
\* what it gave, the number of calls that built it, the pairs <<a, b>> that
\* add_edge(a, b, d, bidirectional = True) was ever called on, and the pairs whose
\* latest add_edge, in either direction, was such a call, with its distance
NoLog ==
    [op |-> "none", city |-> "", outcome |-> "none", error |-> "",
     value |-> <<>>, calls |-> 0, ever |-> {}, both |-> EmptyDict]

Without(d, keys) == [k \in (DOMAIN d) \ keys |-> d[k]]

CallAddCity(name, lat, lon) ==
    /\ run.pc = "idle"
    /\ log.calls < MaxCalls
    /\ cities' = add_city(cities, name, lat, lon)
    /\ log' = [log EXCEPT !.op = "add_city", !.city = name, !.outcome = "returned",
                          !.error = "", !.value = <<>>, !.calls = @ + 1]
    /\ UNCHANGED <<adjacency, run, planner, pq>>

CallAddEdge(a, b, d, bidirectional) ==
    /\ run.pc = "idle"
    /\ log.calls < MaxCalls
    /\ adjacency' = add_edge(adjacency, a, b, d, bidirectional)
    /\ log' = [log EXCEPT
                 !.op = "add_edge", !.city = a, !.outcome = "returned",
                 !.error = "", !.value = <<>>, !.calls = @ + 1,
                 !.ever = IF bidirectional THEN @ \cup {<<a, b>>} ELSE @,
                 !.both = IF bidirectional
                          THEN Put(Put(@, <<a, b>>, d), <<b, a>>, d)
                          ELSE Without(@, {<<a, b>>, <<b, a>>})]
    /\ UNCHANGED <<cities, run, planner, pq>>

CallGetNeighbors(city) ==
    /\ run.pc = "idle"
    /\ adjacency' = get_neighbors_effect(adjacency, city)
    /\ log' = IF get_neighbors_raises(adjacency, city)
              THEN [log EXCEPT !.op = "get_neighbors", !.city = city,
                               !.outcome = "raised", !.error = "KeyError",
                               !.value = <<>>]
              ELSE [log EXCEPT !.op = "get_neighbors", !.city = city,
                               !.outcome = "returned", !.error = "",
                               !.value = get_neighbors(adjacency, city)]
    /\ UNCHANGED <<cities, run, planner, pq>>

\* a caller asks the graph for the distance of an edge, while no search runs;
\* value holds the one number returned
CallGetDistance(a, b) ==
    /\ run.pc = "idle"
    /\ adjacency' = get_distance_effect(adjacency, a)
    /\ log' = IF get_distance_raises(adjacency, a, b)
              THEN [log EXCEPT !.op = "get_distance", !.city = a,
                               !.outcome = "raised", !.error = "KeyError",
                               !.value = <<>>]
              ELSE [log EXCEPT !.op = "get_distance", !.city = a,
                               !.outcome = "returned", !.error = "",
                               !.value = <<get_distance(adjacency, a, b)>>]
    /\ UNCHANGED <<cities, run, planner, pq>>

\* a caller asks the graph for the coordinates of a name, while no search runs
CallGetCoordinates(city) ==
    /\ run.pc = "idle"
    /\ log' = IF get_coordinates_raises(cities, city)
              THEN [log EXCEPT !.op = "get_coordinates", !.city = city,
                               !.outcome = "raised", !.error = "KeyError",
                               !.value = <<>>]
              ELSE [log EXCEPT !.op = "get_coordinates", !.city = city,
                               !.outcome = "returned", !.error = "",
                               !.value = get_coordinates(cities, city)]
    /\ UNCHANGED <<cities, adjacency, run, planner, pq>>

----------------------------------------------------------------------------
(* Heuristic (utilities/heuristics.py) *)

\* The great-circle distance with r = 3956, in whole miles, for cities on
\* whole-degree coordinates of the square 0..1 x 0..1: 69.04 miles along a
\* side, 97.64 miles along a diagonal.
haversine_distance(lat1, lon1, lat2, lon2) ==
    LET dlat == Abs(lat2 - lat1)
        dlon == Abs(lon2 - lon1)
    IN  CASE dlat = 0 /\ dlon = 0 -> 0
          [] dlat + dlon = 1 -> 69
          [] OTHER -> 97

\* _h raises the KeyError of get_coordinates for a name that is no city
HeuristicRaises(a, b) ==
    get_coordinates_raises(cities, a) \/ get_coordinates_raises(cities, b)

\* an estimate that tells no city from another
ZeroHeuristic(a, b) == 0

\* AStar._h(a, b), GreedyBestFirst._h(node), IDAStar._h(node)
Heuristic(a, b) ==
    haversine_distance(get_coordinates(cities, a)[1], get_coordinates(cities, a)[2],
                       get_coordinates(cities, b)[1], get_coordinates(cities, b)[2])

----------------------------------------------------------------------------
(* PriorityQueue (heartofitall/priority_queue.py): the heap _h holds           *)
(* (priority, insertion_order, item) and heappop takes its least tuple.        *)

PQNew == [h |-> {}, push_id |-> 0]

PQPush(q, item, priority) ==
    [h |-> q.h \cup {<<priority, q.push_id, item>>}, push_id |-> q.push_id + 1]

\* an order that puts the later push first among equal priorities
TupleLessLastFirst(x, y) == x[1] < y[1] \/ (x[1] = y[1] /\ x[2] > y[2])

TupleLess(x, y) == x[1] < y[1] \/ (x[1] = y[1] /\ x[2] < y[2])

PQLeast(q) == CHOOSE e \in q.h : \A o \in q.h : o = e \/ TupleLess(e, o)

PQPop(q) == [item |-> PQLeast(q)[3], q |-> [q EXCEPT !.h = @ \ {PQLeast(q)}]]

\* a test that never finds the queue empty
NeverEmpty(q) == FALSE

PQIsEmpty(q) == q.h = {}

\* heapq.heappop of an empty list raises IndexError
PQPopRaises(q) == q.h = {}

\* a PriorityQueue in the hands of a caller, who uses it while no search runs:
\* the queue, the last call on it with its arguments and what it gave, and the
\* heap as it was before that call
NoQueue ==
    [q |-> PQNew, op |-> "none", item |-> "", priority |-> 0,
     outcome |-> "none", error |-> "", value |-> "", before |-> {}]

CallPush(item, priority) ==
    /\ run.pc = "idle"
    /\ pq.q.push_id < MaxPushes
    /\ pq' = [q |-> PQPush(pq.q, item, priority), op |-> "push", item |-> item,
              priority |-> priority, outcome |-> "returned", error |-> "",
              value |-> "", before |-> pq.q.h]
    /\ UNCHANGED <<cities, adjacency, run, planner, log>>

CallPop ==
    /\ run.pc = "idle"
    /\ pq' = IF PQPopRaises(pq.q)
             THEN [pq EXCEPT !.op = "pop", !.item = "", !.priority = 0,
                             !.outcome = "raised", !.error = "IndexError",
                             !.value = "", !.before = pq.q.h]
             ELSE [q |-> PQPop(pq.q).q, op |-> "pop", item |-> "", priority |-> 0,
                   outcome |-> "returned", error |-> "",
                   value |-> PQPop(pq.q).item, before |-> pq.q.h]
    /\ UNCHANGED <<cities, adjacency, run, planner, log>>

----------------------------------------------------------------------------
(* SearchResult (heartofitall/search_results.py) *)

Fields == <<"algorithm_name", "start", "goal", "path", "cost",
            "nodes_expanded", "runtime", "is_optimal">>

FieldSet == SeqToSet(Fields)

\* the arguments of a call SearchResult(a1, a2, ...) bound to the fields in order
Positional(args) ==
    [f \in {Fields[i] : i \in 1..Len(args)} |->
        args[CHOOSE i \in 1..Len(args) : Fields[i] = f]]

\* the generated __init__ has no defaults: a call that leaves out a field
\* raises TypeError
SearchResultRaises(kw) == DOMAIN kw # FieldSet

----------------------------------------------------------------------------
(* One strategy instance and its search() call *)

NoResult == EmptyDict

\* SearchAlgorithm.__init__, BFS.__init__, IDS.__init__, and the locals of search()
NewInstance(alg, start, goal) ==
    [alg |-> alg, start |-> start, goal |-> goal, pc |-> "run",
     nodes_expanded |-> 0,
     frontier |-> PQNew, queue |-> <<>>,
     came_from |-> EmptyDict, cost_so_far |-> EmptyDict, g |-> EmptyDict,
     visited |-> {},
     stack |-> <<>>, found |-> FALSE,
     path |-> <<>>, g_costs |-> <<>>, threshold |-> 0, iterations |-> 0,
     fvalues |-> {}, pruned |-> {}, expanded_at |-> EmptyDict,
     expansions |-> <<>>, linked |-> <<>>, earlier |-> <<>>,
     depth |-> 0, costed |-> <<>>,
     outcome |-> "none", error |-> "", args |-> NoResult, result |-> NoResult]

Idle == [NewInstance("", "", "") EXCEPT !.pc = "idle"]

\* return SearchResult(...): the call either yields the record or raises
Return(s, kw) ==
    IF SearchResultRaises(kw)
    THEN [s EXCEPT !.pc = "done", !.outcome = "raised", !.error = "TypeError", !.args = kw]
    ELSE [s EXCEPT !.pc = "done", !.outcome = "returned", !.args = kw, !.result = kw]

Raise(s, error) == [s EXCEPT !.pc = "done", !.outcome = "raised", !.error = error]

\* SearchAlgorithm._reconstruct_path: follow the parent links back from current
RECURSIVE Backtrack(_, _, _)
Backtrack(came_from, current, fuel) ==
    IF current \in DOMAIN came_from /\ fuel > 0
    THEN Append(Backtrack(came_from, came_from[current], fuel - 1), current)
    ELSE <<current>>

reconstruct_path(came_from, current) ==
    Backtrack(came_from, current, Cardinality(DOMAIN came_from) + 1)

\* the sum of get_distance over the consecutive pairs of a path
RECURSIVE PathCost(_, _)
PathCost(adj, path) ==
    IF Len(path) < 2 THEN 0
    ELSE get_distance(adj, path[1], path[2]) + PathCost(adj, Tail(path))

PathCostRaises(adj, path) ==
    \E i \in 1..(Len(path) - 1) : get_distance_raises(adj, path[i], path[i + 1])

RECURSIVE PathCostEffect(_, _)
PathCostEffect(adj, path) ==
    IF Len(path) < 2 THEN adj
    ELSE IF get_distance_raises(adj, path[1], path[2])
         THEN get_distance_effect(adj, path[1])
         ELSE PathCostEffect(get_distance_effect(adj, path[1]), Tail(path))

----------------------------------------------------------------------------
(* UCS (algorithms/ucs.py) *)

UCSInit(start, goal) ==
    [NewInstance("UCS", start, goal) EXCEPT
        !.frontier = PQPush(PQNew, start, 0),
        !.cost_so_far = Put(EmptyDict, start, 0)]

\* a test that also takes a cost equal to the known one
UCSImprovesOrTies(new_cost, known) == new_cost <= known

UCSImproves(new_cost, known) == new_cost < known

RECURSIVE UCSRelax(_, _, _, _)
UCSRelax(s, current, current_cost, items) ==
    IF items = <<>> THEN s
    ELSE LET neighbor == Head(items)[1]
             new_cost == current_cost + Head(items)[2]
             s1 == IF UCSImproves(new_cost, Get(s.cost_so_far, neighbor, Inf))
                   THEN [s EXCEPT !.cost_so_far = Put(@, neighbor, new_cost),
                                  !.came_from = Put(@, neighbor, current),
                                  !.frontier = PQPush(@, neighbor, new_cost)]
                   ELSE s
         IN  UCSRelax(s1, current, current_cost, Tail(items))

\* the keyword arguments of the two SearchResult(...) calls of UCS.search
UCSFoundArgs(path, cost, n, rt) ==
    [path |-> path, cost |-> cost, nodes_expanded |-> n, runtime |-> rt,
     is_optimal |-> TRUE, algorithm_name |-> "UCS"]

UCSFailedArgs(n, rt) ==
    [path |-> <<>>, cost |-> Inf, nodes_expanded |-> n, runtime |-> rt,
     is_optimal |-> FALSE, algorithm_name |-> "UCS"]

\* one pass of the while loop, or the code after it
UCSStep(s, rt) ==
    IF PQIsEmpty(s.frontier)
    THEN Return(s, UCSFailedArgs(s.nodes_expanded, rt))
    ELSE IF PQPopRaises(s.frontier) THEN Raise(s, "IndexError")
    ELSE LET popped == PQPop(s.frontier)
             current == popped.item
             current_cost == s.cost_so_far[current]
             s0 == [s EXCEPT !.frontier = popped.q]
         IN  IF current = s.goal
             THEN Return(s0, UCSFoundArgs(reconstruct_path(s.came_from, current),
                                          current_cost, s.nodes_expanded, rt))
             ELSE UCSRelax([s0 EXCEPT !.nodes_expanded = @ + 1,
                                      !.expanded_at = Put(@, current, current_cost)],
                           current, current_cost, get_neighbors(adjacency, current))

----------------------------------------------------------------------------
(* A* (algorithms/astar.py) *)

AStarInit(start, goal) ==
    [NewInstance("A*", start, goal) EXCEPT
        !.frontier = PQPush(PQNew, start, 0),
        !.g = Put(EmptyDict, start, 0)]

AStarPriority(tentative, nbr, goal) == tentative + Heuristic(nbr, goal)

RECURSIVE AStarRelax(_, _, _)
AStarRelax(s, current, items) ==
    IF items = <<>> \/ s.pc = "done" THEN s
    ELSE LET nbr == Head(items)[1]
             tentative == s.g[current] + Head(items)[2]
             s1 == IF tentative < Get(s.g, nbr, Inf)
                   THEN IF HeuristicRaises(nbr, s.goal)
                        THEN Raise([s EXCEPT !.g = Put(@, nbr, tentative),
                                             !.came_from = Put(@, nbr, current)],
                                   "KeyError")
                        ELSE [s EXCEPT !.g = Put(@, nbr, tentative),
                                  !.came_from = Put(@, nbr, current),
                                  !.frontier = PQPush(@, nbr,
                                                 AStarPriority(tentative, nbr, s.goal))]
                   ELSE s
         IN  AStarRelax(s1, current, Tail(items))

\* a result whose cost takes in the reading of the timer
ResultArgsTimed(name, start, goal, path, cost, n, rt, optimal) ==
    [algorithm_name |-> name, start |-> start, goal |-> goal, path |-> path,
     cost |-> cost + rt, nodes_expanded |-> n, runtime |-> rt, is_optimal |-> optimal]

ResultArgs(name, start, goal, path, cost, n, rt, optimal) ==
    [algorithm_name |-> name, start |-> start, goal |-> goal, path |-> path,
     cost |-> cost, nodes_expanded |-> n, runtime |-> rt, is_optimal |-> optimal]

AStarStep(s, rt) ==
    IF PQIsEmpty(s.frontier)
    THEN Return(s, ResultArgs("A*", s.start, s.goal, <<>>, Inf,
                              s.nodes_expanded, rt, FALSE))
    ELSE IF PQPopRaises(s.frontier) THEN Raise(s, "IndexError")
    ELSE LET popped == PQPop(s.frontier)
             current == popped.item
             s0 == [s EXCEPT !.frontier = popped.q]
         IN  IF current = s.goal
             THEN Return(s0, ResultArgs("A*", s.start, s.goal,
                                        reconstruct_path(s.came_from, current),
                                        s.g[current], s.nodes_expanded, rt, TRUE))
             ELSE AStarRelax([s0 EXCEPT !.nodes_expanded = @ + 1,
                                        !.expanded_at = Put(@, current, s.g[current])],
                             current, get_neighbors(adjacency, current))

----------------------------------------------------------------------------
(* Greedy best-first (algorithms/greedy.py) *)

GreedyInit(start, goal) ==
    IF HeuristicRaises(start, goal)
    THEN Raise(NewInstance("Greedy", start, goal), "KeyError")
    ELSE [NewInstance("Greedy", start, goal) EXCEPT
        !.frontier = PQPush(PQNew, start, Heuristic(start, goal)),
        !.visited = {start}]

RECURSIVE GreedyExpand(_, _, _)
GreedyExpand(s, current, items) ==
    IF items = <<>> \/ s.pc = "done" THEN s
    ELSE LET nbr == Head(items)[1]
             s1 == IF nbr \notin s.visited
                   THEN IF HeuristicRaises(nbr, s.goal)
                        THEN Raise([s EXCEPT !.visited = @ \cup {nbr},
                                             !.came_from = Put(@, nbr, current),
                                             !.linked = Append(@, nbr)],
                                   "KeyError")
                        ELSE
                        [s EXCEPT !.visited = @ \cup {nbr},
                                  !.came_from = Put(@, nbr, current),
                                  !.linked = Append(@, nbr),
                                  !.frontier = PQPush(@, nbr, Heuristic(nbr, s.goal))]
                   ELSE s
         IN  GreedyExpand(s1, current, Tail(items))

\* cost = the sum of get_distance along path, then return SearchResult(...)
ReturnCosted(s, name, path, rt, optimal) ==
    IF PathCostRaises(adjacency, path)
    THEN Raise([s EXCEPT !.costed = path], "KeyError")
    ELSE Return([s EXCEPT !.costed = path],
                ResultArgs(name, s.start, s.goal, path, PathCost(adjacency, path),
                           s.nodes_expanded, rt, optimal))

GreedyStep(s, rt) ==
    IF PQIsEmpty(s.frontier)
    THEN Return(s, ResultArgs("Greedy", s.start, s.goal, <<>>, Inf,
                              s.nodes_expanded, rt, FALSE))
    ELSE IF PQPopRaises(s.frontier) THEN Raise(s, "IndexError")
    ELSE LET popped == PQPop(s.frontier)
             current == popped.item
             s0 == [s EXCEPT !.frontier = popped.q]
         IN  IF current = s.goal
             THEN ReturnCosted(s0, "Greedy", reconstruct_path(s.came_from, current),
                               rt, FALSE)
             ELSE GreedyExpand([s0 EXCEPT !.nodes_expanded = @ + 1,
                                          !.expansions = Append(@, current)],
                               current, get_neighbors(adjacency, current))

----------------------------------------------------------------------------
(* BFS (algorithms/bfs.py) *)

BFSInit(start, goal) ==
    [NewInstance("BFS", start, goal) EXCEPT !.queue = <<start>>, !.visited = {start}]

\* an expansion that records the latest parent of a city, not the first
RECURSIVE BFSExpandLatest(_, _, _)
BFSExpandLatest(s, u, items) ==
    IF items = <<>> THEN s
    ELSE LET v == Head(items)[1]
             s1 == [s EXCEPT !.visited = @ \cup {v},
                             !.came_from = Put(@, v, u),
                             !.linked = Append(@, v),
                             !.queue = IF v \notin s.visited THEN Append(@, v) ELSE @]
         IN  BFSExpandLatest(s1, u, Tail(items))

RECURSIVE BFSExpand(_, _, _)
BFSExpand(s, u, items) ==
    IF items = <<>> THEN s
    ELSE LET v == Head(items)[1]
             s1 == IF v \notin s.visited
                   THEN [s EXCEPT !.visited = @ \cup {v},
                                  !.came_from = Put(@, v, u),
                                  !.linked = Append(@, v),
                                  !.queue = Append(@, v)]
                   ELSE s
         IN  BFSExpand(s1, u, Tail(items))

\* BFS._reconstruct_path: the nodes that have a parent, from goal back, then start
RECURSIVE BFSBacktrack(_, _, _, _)
BFSBacktrack(came_from, current, start, fuel) ==
    IF current \in DOMAIN came_from /\ fuel > 0
    THEN Append(BFSBacktrack(came_from, came_from[current], start, fuel - 1), current)
    ELSE <<start>>

BFS_reconstruct_path(came_from, goal, start) ==
    BFSBacktrack(came_from, goal, start, Cardinality(DOMAIN came_from) + 1)

\* the code after the while loop
BFSFinish(s, rt) ==
    IF s.goal \notin DOMAIN s.came_from /\ s.goal # s.start
    THEN Return(s, ResultArgs("BFS", s.start, s.goal, <<>>, Inf,
                              s.nodes_expanded, rt, FALSE))
    ELSE ReturnCosted(s, "BFS",
                      IF s.start = s.goal THEN <<s.start>>
                      ELSE BFS_reconstruct_path(s.came_from, s.goal, s.start),
                      rt, FALSE)

BFSStep(s, rt) ==
    IF s.queue = <<>>
    THEN BFSFinish(s, rt)
    ELSE LET u == Head(s.queue)
             s0 == [s EXCEPT !.queue = Tail(@)]
         IN  IF u = s.goal
             THEN BFSFinish(s0, rt)
             ELSE BFSExpand([s0 EXCEPT !.nodes_expanded = @ + 1,
                                       !.expansions = Append(@, u)],
                            u, get_neighbors(adjacency, u))

----------------------------------------------------------------------------
(* DFS (algorithms/dfs.py): helper's recursion is the stack of its frames     *)
(* <<node, index of the next neighbour>>.                                      *)

\* a call helper(node, visited, came_from) up to its for loop
\* a call that does not mark its node
DFSEnterUnmarked(s, node) ==
    IF node = s.goal
    THEN [s EXCEPT !.found = TRUE, !.stack = <<>>]
    ELSE [s EXCEPT !.nodes_expanded = @ + 1,
                   !.expansions = Append(@, node),
                   !.stack = Append(@, <<node, 1>>)]

DFSEnter(s, node) ==
    IF node = s.goal
    THEN [s EXCEPT !.found = TRUE, !.stack = <<>>]
    ELSE [s EXCEPT !.visited = @ \cup {node},
                   !.nodes_expanded = @ + 1,
                   !.expansions = Append(@, node),
                   !.stack = Append(@, <<node, 1>>)]

DFSInit(start, goal) == DFSEnter(NewInstance("DFS", start, goal), start)

\* SearchResult(path, cost, nodes_expanded, runtime, is_optimal, "DFS")
DFSArgs(path, cost, n, rt, optimal) == Positional(<<path, cost, n, rt, optimal, "DFS">>)

\* the code of search() after helper has returned
DFSFinish(s, rt) ==
    IF s.goal \notin DOMAIN s.came_from /\ s.goal # s.start
    THEN Return(s, DFSArgs(<<>>, Inf, s.nodes_expanded, rt, FALSE))
    ELSE LET path == IF s.start = s.goal THEN <<s.start>>
                     ELSE reconstruct_path(s.came_from, s.goal)
         IN  IF PathCostRaises(adjacency, path)
             THEN Raise([s EXCEPT !.costed = path], "KeyError")
             ELSE Return([s EXCEPT !.costed = path],
                         DFSArgs(path, PathCost(adjacency, path), s.nodes_expanded,
                                 rt, TRUE))

DFSStep(s, rt) ==
    IF s.found \/ s.stack = <<>>
    THEN DFSFinish(s, rt)
    ELSE LET top == s.stack[Len(s.stack)]
             node == top[1]
             items == get_neighbors(adjacency, node)
         IN  IF top[2] > Len(items)
             THEN [s EXCEPT !.stack = SubSeq(@, 1, Len(@) - 1)]
             ELSE LET neighbor == items[top[2]][1]
                      s0 == [s EXCEPT !.stack[Len(s.stack)] = <<node, top[2] + 1>>]
                  IN  IF neighbor \notin s.visited
                      THEN DFSEnter([s0 EXCEPT !.came_from = Put(@, neighbor, node),
                                               !.linked = Append(@, neighbor)],
                                    neighbor)
                      ELSE s0

----------------------------------------------------------------------------
(* IDS (algorithms/ids.py) *)

\* a search whose first depth bound is the cap
IDSInitDeep(start, goal) == [NewInstance("IDS", start, goal) EXCEPT !.depth = DepthCap]

IDSInit(start, goal) == NewInstance("IDS", start, goal)

\* depth_limited_search(node, depth, path): found is "result is not None",
\* expanded the number of times nodes_expanded is incremented by the call
NotFound == [found |-> FALSE, path |-> <<>>, expanded |-> 0]

\* `result` of a call that did not find the goal, with the count of the call
\* that made it
AddExpanded(rest, n) == [rest EXCEPT !.expanded = @ + n]

\* return [node] + result
Prepend(node, r) ==
    [found |-> r.found,
     path |-> IF r.found THEN <<node>> \o r.path ELSE <<>>,
     expanded |-> r.expanded + 1]

\* a result is bound once, as the local variable `result` of the code is
RECURSIVE depth_limited_search(_, _, _, _), DLSNeighbors(_, _, _, _, _)
depth_limited_search(goal, node, depth, path) ==
    IF node = goal THEN [found |-> TRUE, path |-> <<node>>, expanded |-> 0]
    ELSE IF depth = 0 THEN NotFound
    ELSE CHOOSE x \in
            {Prepend(node, r) :
                r \in {DLSNeighbors(goal, node, depth, path,
                                    get_neighbors(adjacency, node))}} : TRUE

DLSNeighbors(goal, node, depth, path, items) ==
    IF items = <<>> THEN NotFound
    ELSE LET neighbor == Head(items)[1]
         IN  IF neighbor \in SeqToSet(path)
             THEN DLSNeighbors(goal, node, depth, path, Tail(items))
             ELSE CHOOSE x \in
                    {IF r.found THEN r
                     ELSE AddExpanded(DLSNeighbors(goal, node, depth, path, Tail(items)),
                                      r.expanded) :
                        r \in {depth_limited_search(goal, neighbor, depth - 1,
                                                    Append(path, neighbor))}} : TRUE

\* a loop that ends only when a result is found
IDSLoopEndsFound(found, depth) == found

\* the loop ends when a result is found or depth > 50
IDSLoopEnds(found, depth) == found \/ depth > DepthCap

\* what search() does with the result r of depth_limited_search at s.depth
IDSPass(s, r, rt) ==
    LET s0 == [s EXCEPT !.nodes_expanded = @ + r.expanded]
    IN  IF IDSLoopEnds(r.found, s.depth)
        THEN IF ~r.found
             THEN Raise(s0, "TypeError")   \* zip(result, result[1:]) with result None
             ELSE ReturnCosted(s0, "IDS", r.path, rt, FALSE)
        ELSE [s0 EXCEPT !.depth = @ + 1]

\* one pass of the while loop; the last pass runs the code after the loop
IDSStep(s, rt) ==
    CHOOSE x \in
        {IDSPass(s, r, rt) :
            r \in {depth_limited_search(s.goal, s.start, s.depth, <<s.start>>)}} : TRUE

----------------------------------------------------------------------------
(* IDA* (algorithms/idastar.py): path and g_costs are the two lists that      *)
(* _bounded_search appends to and pops from; its recursion is the stack of    *)
(* frames [idx: index of the next neighbour, min_exceeded] of the calls that  *)
(* are inside their for loop, frame k being the call on path[k].              *)

IDAStarInit(start, goal) ==
    IF HeuristicRaises(start, goal)
    THEN Raise(NewInstance("IDA*", start, goal), "KeyError")
    ELSE [NewInstance("IDA*", start, goal) EXCEPT
        !.threshold = Heuristic(start, goal),
        !.path = <<start>>,
        !.g_costs = <<0>>]

Last(sq) == sq[Len(sq)]

\* a list left as it is
Unpopped(sq) == sq

ButLast(sq) == SubSeq(sq, 1, Len(sq) - 1)

\* a bound test that also cuts off at the threshold itself
ExceedsOrMeets(f, threshold) == f >= threshold

\* the bound test of _bounded_search
Exceeds(f, threshold) == f > threshold

\* a for loop that keeps the value of the latest call
LatestExceeded(result, min_exceeded) == result

\* if result < min_exceeded: min_exceeded = result
LeastExceeded(result, min_exceeded) ==
    IF result < min_exceeded THEN result ELSE min_exceeded

\* what the caller of _bounded_search does with a number it returns
IDAReturned(s, value, rt) ==
    IF s.stack = <<>>
    THEN \* search(): result == inf ends the search, else it is the next threshold
         IF value = Inf
         THEN Return(s, ResultArgs("IDA*", s.start, s.goal, <<>>, Inf,
                                   s.nodes_expanded, rt, FALSE))
         ELSE [s EXCEPT !.threshold = value]
    ELSE \* _bounded_search: keep the least value, then path.pop(), g_costs.pop()
         [s EXCEPT !.stack[Len(s.stack)].min_exceeded = LeastExceeded(value, @),
                   !.path = ButLast(@),
                   !.g_costs = ButLast(@)]

\* a call _bounded_search(path, g_costs, threshold) up to its for loop
IDAEnter(s, rt) ==
    LET node == Last(s.path)
        g == Last(s.g_costs)
        f == g + Heuristic(node, s.goal)
        s0 == [s EXCEPT !.fvalues = @ \cup {f}]
    IN  IF Exceeds(f, s.threshold)
        THEN IDAReturned([s0 EXCEPT !.pruned = @ \cup {f}], f, rt)
        ELSE IF node = s.goal
        THEN Return([s0 EXCEPT !.found = TRUE],
                    ResultArgs("IDA*", s.start, s.goal, s.path, Last(s.g_costs),
                               s.nodes_expanded, rt, TRUE))
        ELSE [s0 EXCEPT !.nodes_expanded = @ + 1,
                        !.stack = Append(@, [idx |-> 1, min_exceeded |-> Inf])]

IDAStarStep(s, rt) ==
    IF s.stack = <<>>
    THEN IDAEnter([s EXCEPT !.iterations = @ + 1, !.pruned = {}], rt)
    ELSE LET top == Last(s.stack)
             node == s.path[Len(s.stack)]
             g == s.g_costs[Len(s.stack)]
             items == get_neighbors(adjacency, node)
         IN  IF top.idx > Len(items)
             THEN IDAReturned([s EXCEPT !.stack = ButLast(@)], top.min_exceeded, rt)
             ELSE LET neighbor == items[top.idx][1]
                      edge_cost == items[top.idx][2]
                      s0 == [s EXCEPT !.stack[Len(s.stack)].idx = @ + 1]
                  IN  IF neighbor \notin SeqToSet(s.path)
                      THEN IDAEnter([s0 EXCEPT !.path = Append(@, neighbor),
                                               !.g_costs = Append(@, g + edge_cost)], rt)
                      ELSE s0

----------------------------------------------------------------------------
(* search() run to its end *)

\* the strategy classes by the tag of their results
InitOf(alg, start, goal) ==
    CASE alg = "BFS" -> BFSInit(start, goal)
      [] alg = "DFS" -> DFSInit(start, goal)
      [] alg = "UCS" -> UCSInit(start, goal)
      [] alg = "Greedy" -> GreedyInit(start, goal)
      [] alg = "A*" -> AStarInit(start, goal)
      [] alg = "IDA*" -> IDAStarInit(start, goal)
      [] OTHER -> IDSInit(start, goal)

StepOf(s, rt) ==
    CASE s.alg = "BFS" -> BFSStep(s, rt)
      [] s.alg = "DFS" -> DFSStep(s, rt)
      [] s.alg = "UCS" -> UCSStep(s, rt)
      [] s.alg = "Greedy" -> GreedyStep(s, rt)
      [] s.alg = "A*" -> AStarStep(s, rt)
      [] s.alg = "IDA*" -> IDAStarStep(s, rt)
      [] OTHER -> IDSStep(s, rt)

RECURSIVE Complete(_, _)
Complete(s, rt) == IF s.pc = "done" THEN s ELSE Complete(StepOf(s, rt), rt)

----------------------------------------------------------------------------
(* RoutePlanner (utilities/route_planner.py) *)

\* registry key -> the strategy class, named by the tag of its results
ALGO_REGISTRY ==
    [k \in {"DFS", "BFS", "UCS", "IDS", "Greedy", "A*"} |-> k]

ALGO_NAME_MAPPING ==
    [k \in {"DFS (Depth-First Search)", "BFS (Breadth-First Search)",
            "UCS (Uniform Cost Search)", "Greedy Best-First Search",
            "IDS (Iterative Deepening Search)", "A* Search",
            "A*", "Greedy", "DFS", "BFS", "UCS", "IDS"} |->
        CASE k = "DFS (Depth-First Search)" -> "DFS"
          [] k = "BFS (Breadth-First Search)" -> "BFS"
          [] k = "UCS (Uniform Cost Search)" -> "UCS"
          [] k = "Greedy Best-First Search" -> "Greedy"
          [] k = "IDS (Iterative Deepening Search)" -> "IDS"
          [] k = "A* Search" -> "A*"
          [] OTHER -> k]

\* the names of the model that hold a "(" and name.split("(")[0].strip() of each
BeforeParen ==
    [k \in {"DFS (Depth-First Search)", "BFS (Breadth-First Search)",
            "UCS (Uniform Cost Search)", "IDS (Iterative Deepening Search)",
            "BFS (fast)", "IDA* (Iterative Deepening A*)"} |->
        CASE k = "DFS (Depth-First Search)" -> "DFS"
          [] k = "BFS (Breadth-First Search)" -> "BFS"
          [] k = "UCS (Uniform Cost Search)" -> "UCS"
          [] k = "IDS (Iterative Deepening Search)" -> "IDS"
          [] k = "BFS (fast)" -> "BFS"
          [] OTHER -> "IDA*"]

normalize_algorithm_name(name) ==
    IF name \in DOMAIN ALGO_NAME_MAPPING THEN ALGO_NAME_MAPPING[name]
    ELSE IF name \in DOMAIN BeforeParen /\ BeforeParen[name] \in DOMAIN ALGO_REGISTRY
         THEN BeforeParen[name]
         ELSE name

\* the conservative optimality annotation
Annotated(normalized_name) == normalized_name \in {"UCS", "A*"}

\* results.sort(key = ...) is stable: the results of each key, keys ascending
RECURSIVE SortByKey(_, _, _, _)
SortByKey(results, key, k, top) ==
    IF k > top THEN <<>>
    ELSE SelectSeq(results, LAMBDA r : key[r.algorithm_name] = k)
           \o SortByKey(results, key, k + 1, top)

\* order = {name: i for i, name in enumerate(to_run)}: the last place of each name
OrderOf(to_run) ==
    [n \in SeqToSet(to_run) |->
        CHOOSE i \in 1..Len(to_run) :
            to_run[i] = n /\ \A j \in 1..Len(to_run) : to_run[j] = n => j <= i]

SortResults(results, to_run) == SortByKey(results, OrderOf(to_run), 1, Len(to_run))

\* the place of the last of the least among the keys
LastLeast(keys) ==
    CHOOSE i \in 1..Len(keys) :
        /\ \A j \in 1..Len(keys) : keys[i] <= keys[j]
        /\ \A j \in (i + 1)..Len(keys) : keys[j] > keys[i]

\* min(..., key = ...) takes the first of the least: its place among the keys
FirstLeast(keys) ==
    CHOOSE i \in 1..Len(keys) :
        /\ \A j \in 1..Len(keys) : keys[i] <= keys[j]
        /\ \A j \in 1..(i - 1) : keys[j] > keys[i]

CostsOf(results) == [i \in 1..Len(results) |-> results[i].cost]

RuntimesOf(results) == [i \in 1..Len(results) |-> results[i].runtime]

ExpandedOf(results) == [i \in 1..Len(results) |-> results[i].nodes_expanded]

\* every result, with or without a path
Everything(results) == results

Feasible(results) == SelectSeq(results, LAMBDA r : r.path # <<>>)

NamesOf(results) == [i \in 1..Len(results) |-> results[i].algorithm_name]

\* ComparisonResult(start, goal, results) with __post_init__ and _compute_metrics
ComparisonResult(start, goal, results) ==
    LET feasible == Feasible(results)
        min_cost == feasible[FirstLeast(CostsOf(feasible))].cost
    IN  [start |-> start, goal |-> goal, results |-> results,
         optimal_algorithms |->
            IF feasible = <<>> THEN <<>>
            ELSE NamesOf(SelectSeq(feasible, LAMBDA r : r.cost = min_cost)),
         fastest_algorithm |->
            IF feasible = <<>> THEN ""
            ELSE feasible[FirstLeast(RuntimesOf(feasible))].algorithm_name,
         least_expanded_algorithm |->
            IF feasible = <<>> THEN ""
            ELSE feasible[FirstLeast(ExpandedOf(feasible))].algorithm_name]

\* every selected name, normalized, known or not
Normalized(algorithms) ==
    [i \in 1..Len(algorithms) |-> normalize_algorithm_name(algorithms[i])]

\* to_run = [a for a in normalized_algos if a in ALGO_REGISTRY]
ToRun(algorithms) ==
    SelectSeq([i \in 1..Len(algorithms) |-> normalize_algorithm_name(algorithms[i])],
              LAMBDA a : a \in DOMAIN ALGO_REGISTRY)

PlannerDone(p, outcome, error, value) ==
    [p EXCEPT !.pc = "done", !.outcome = outcome, !.error = error, !.value = value]

\* the end of run_comparison once every result is collected
Assemble(p) ==
    PlannerDone(p, "returned", "",
                ComparisonResult(p.start, p.goal, SortResults(p.results, p.to_run)))

NewPlanner(call, start, goal, algorithms, parallel) ==
    [pc |-> "running", call |-> call, start |-> start, goal |-> goal,
     algorithms |-> algorithms, parallel |-> parallel,
     to_run |-> <<>>, pending |-> {}, current |-> 0, completed |-> <<>>,
     failed |-> "", results |-> <<>>, created |-> <<>>,
     threads |-> EmptyDict,
     outcome |-> "none", error |-> "", value |-> NoResult]

NoPlanner == [NewPlanner("", "", "", <<>>, FALSE) EXCEPT !.pc = "idle"]

\* run_single_algorithm up to algo_cls(self.graph, start, goal).search(): an
\* unknown name raises ValueError, a known one starts the search of its class
BeginSingle(p, i, algorithm_name) ==
    LET normalized_name == normalize_algorithm_name(algorithm_name)
    IN  IF normalized_name \notin DOMAIN ALGO_REGISTRY
        THEN /\ planner' = PlannerDone(p, "raised", "ValueError", NoResult)
             /\ UNCHANGED run
        ELSE /\ planner' = [p EXCEPT !.pc = "searching", !.current = i,
                                     !.pending = @ \ {i}]
             /\ run' = InitOf(ALGO_REGISTRY[normalized_name], p.start, p.goal)

\* a call of run_single_algorithm by the user of the planner
CallRunSingle(algorithm_name, start, goal) ==
    /\ planner.pc = "idle"
    /\ run.pc = "idle"
    /\ BeginSingle([NewPlanner("run_single_algorithm", start, goal,
                               <<algorithm_name>>, FALSE)
                      EXCEPT !.to_run = <<algorithm_name>>],
                   1, algorithm_name)
    /\ UNCHANGED <<pq, log, cities, adjacency>>

\* run_comparison up to the first search
CallRunComparison(start, goal, algorithms, parallel) ==
    LET p == NewPlanner("run_comparison", start, goal, algorithms, parallel)
        to_run == ToRun(algorithms)
    IN  /\ planner.pc = "idle"
        /\ run.pc = "idle"
        /\ planner' = IF to_run = <<>>
                      THEN PlannerDone(p, "raised", "ValueError", NoResult)
                      ELSE [p EXCEPT !.to_run = to_run, !.pending = 1..Len(to_run)]
        /\ UNCHANGED <<pq, log, cities, adjacency, run>>

\* parallel = False: "for a in to_run" calls run_single_algorithm on the next name
SequentialRun ==
    /\ planner.pc = "running"
    /\ ~planner.parallel
    /\ LET i == Len(planner.completed) + 1
       IN  BeginSingle(planner, i, planner.to_run[i])
    /\ UNCHANGED <<pq, log, cities, adjacency>>

\* parallel = True: the worker of future i runs run_single_algorithm; the searches
\* of the workers are taken one after another, in every order
WorkerRuns(i) ==
    /\ planner.pc = "running"
    /\ planner.parallel
    /\ i \in planner.pending
    /\ BeginSingle(planner, i, planner.to_run[i])
    /\ UNCHANGED <<pq, log, cities, adjacency>>

\* the rest of run_single_algorithm once search() has returned or raised, and
\* what its caller does with it: the user gets it; the for loop appends it;
\* as_completed hands the future to the loop, which appends fut.result() or is
\* left by the exception it raises, and the with block waits for every worker
\* before run_comparison goes on to sort the results and build the ComparisonResult
SearchEnds ==
    LET i == planner.current
        normalized_name == normalize_algorithm_name(planner.to_run[i])
        raised == run.outcome = "raised"
        result == [run.result EXCEPT !.is_optimal = Annotated(normalized_name)]
        collect == ~raised /\ planner.failed = ""
        p == [planner EXCEPT
                !.pc = "running",
                !.current = 0,
                !.completed = Append(@, i),
                !.failed = IF @ = "" /\ raised THEN run.error ELSE @,
                !.results = IF collect THEN Append(@, result) ELSE @,
                !.created = IF collect THEN Append(@, run.result) ELSE @]
    IN  /\ planner.pc = "searching"
        /\ run.pc = "done"
        /\ run' = Idle
        /\ planner' =
             IF planner.call = "run_single_algorithm"
             THEN IF raised THEN PlannerDone(p, "raised", run.error, NoResult)
                  ELSE PlannerDone(p, "returned", "", result)
             ELSE IF raised /\ ~planner.parallel
                  THEN PlannerDone(p, "raised", run.error, NoResult)
             ELSE IF p.pending # {} THEN p
             ELSE IF p.failed # "" THEN PlannerDone(p, "raised", p.failed, NoResult)
             ELSE Assemble(p)
        /\ UNCHANGED <<pq, log, cities, adjacency>>

----------------------------------------------------------------------------
(* The graphs and the searches of the model *)

Coordinates ==
    [c \in CityNames |->
        CASE c = "A" -> <<0, 0>> [] c = "B" -> <<0, 1>>
          [] c = "C" -> <<1, 1>> [] OTHER -> <<1, 0>>]

\* the roads a graph may have, in the order the loader adds them
Roads == << <<"A", "B">>, <<"A", "C">>, <<"A", "D">>,
            <<"B", "C">>, <<"B", "D">>, <<"C", "D">> >>

\* a graph takes the lengths of its roads from one of these sets
WeightSets == {{0, 1, 3}, {70, 100, 210}}

\* the mark of a pair of cities that has no row in the edges file
NoRoad == -1

Runtimes == 0..MaxRuntime

Strategies == {"BFS", "DFS", "UCS", "Greedy", "A*", "IDA*", "IDS"}

RECURSIVE BuildCities(_, _)
BuildCities(cs, names) ==
    IF names = {} THEN cs
    ELSE LET n == CHOOSE x \in names : TRUE
         IN  BuildCities(add_city(cs, n, Coordinates[n][1], Coordinates[n][2]),
                         names \ {n})

RECURSIVE BuildGraph(_, _, _)
BuildGraph(adj, w, i) ==
    IF i > Len(Roads) THEN adj
    ELSE BuildGraph(IF w[i] = NoRoad THEN adj
                    ELSE add_edge(adj, Roads[i][1], Roads[i][2], w[i], TRUE),
                    w, i + 1)

GraphInit ==
    /\ cities = BuildCities(EmptyDict, CityNames)
    /\ \E W \in WeightSets :
         \E w \in [1..Len(Roads) -> W \cup {NoRoad}] :
            /\ Cardinality({i \in 1..Len(Roads) : w[i] # NoRoad}) <= MaxEdges
            /\ adjacency = BuildGraph(EmptyDict, w, 1)

Init ==
    /\ GraphInit
    /\ run = Idle
    /\ planner = NoPlanner
    /\ pq = NoQueue
    /\ log = NoLog

\* a caller constructs a strategy on the graph and calls search()
Search(alg, start, goal) ==
    /\ run.pc = "idle"
    /\ planner.pc = "idle"
    /\ pq.op = "none"
    /\ log.op = "none"
    /\ run' = InitOf(alg, start, goal)
    /\ UNCHANGED <<pq, log, cities, adjacency, planner>>

\* a step of the running search; get_distance may add a key to adjacency
Advance(alg, next) ==
    /\ run.pc = "run"
    /\ run.alg = alg
    /\ \E after \in {next} :
         /\ run' = after
         /\ adjacency' = PathCostEffect(adjacency, after.costed)
    /\ UNCHANGED <<pq, log, cities, planner>>

UCSRun == \E rt \in Runtimes : Advance("UCS", UCSStep(run, rt))

AStarRun == \E rt \in Runtimes : Advance("A*", AStarStep(run, rt))

GreedyRun == \E rt \in Runtimes : Advance("Greedy", GreedyStep(run, rt))

BFSRun == \E rt \in Runtimes : Advance("BFS", BFSStep(run, rt))

DFSRun == \E rt \in Runtimes : Advance("DFS", DFSStep(run, rt))

\* depth never passes DepthCap + 1
IDSRun ==
    /\ run.depth <= DepthCap + 1
    /\ \E rt \in Runtimes : Advance("IDS", IDSStep(run, rt))

IDAStarRun == \E rt \in Runtimes : Advance("IDA*", IDAStarStep(run, rt))

StartSearch == \E alg \in Strategies : \E goal \in CityNames : Search(alg, "A", goal)

Next ==
    \/ StartSearch
    \/ UCSRun
    \/ AStarRun
    \/ GreedyRun
    \/ BFSRun
    \/ DFSRun
    \/ IDSRun
    \/ IDAStarRun

Spec == Init /\ [][Next]_vars

\* the graphs of at most MaxRoads roads, each short or long, with lengths
\* below or above the straight-line distances
InitTermination ==
    /\ cities = BuildCities(EmptyDict, CityNames)
    /\ \E W \in {{0, 3}, {70, 210}} :
         \E w \in [1..Len(Roads) -> W \cup {NoRoad}] :
            /\ Cardinality({i \in 1..Len(Roads) : w[i] # NoRoad}) <= MaxRoads
            /\ adjacency = BuildGraph(EmptyDict, w, 1)
    /\ run = Idle
    /\ planner = NoPlanner
    /\ pq = NoQueue
    /\ log = NoLog

\* the next step of the search that is running, whichever strategy it is
SearchStep ==
    \/ UCSRun
    \/ AStarRun
    \/ GreedyRun
    \/ BFSRun
    \/ DFSRun
    \/ IDSRun
    \/ IDAStarRun

\* search() runs in its caller's thread: a search that has a step to take
\* takes it
SpecTermination ==
    /\ InitTermination
    /\ [][Next]_vars
    /\ WF_vars(SearchStep)

\* search() called once more on an instance whose search() has ended: __init__
\* is not run again, so self.nodes_expanded keeps its value and the locals of
\* search() are new; earlier keeps how each ended call came out
SearchAgainOn(s) ==
    [InitOf(s.alg, s.start, s.goal) EXCEPT
        !.nodes_expanded = @ + s.nodes_expanded,
        !.earlier = Append(s.earlier,
                           [outcome |-> s.outcome,
                            nodes_expanded |-> IF s.outcome = "returned"
                                               THEN s.result.nodes_expanded
                                               ELSE s.nodes_expanded])]

SearchAgain ==
    /\ run.pc = "done"
    /\ Len(run.earlier) + 1 < MaxSearches
    /\ run' = SearchAgainOn(run)
    /\ UNCHANGED <<pq, log, cities, adjacency, planner>>

\* a caller keeps the strategy instance and calls search() on it again
SpecRepeat == InitTermination /\ [][Next \/ SearchAgain]_vars

\* The planner is called on one of these graphs: the scenario, the scenario
\* with every road 70 times as long, and a graph where C is two roads away.
PlannerRoads ==
    { <<1, 3, NoRoad, 1, NoRoad, NoRoad>>,
      <<70, 210, NoRoad, 70, NoRoad, NoRoad>>,
      <<3, NoRoad, 1, NoRoad, NoRoad, 1>> }

\* the names a caller passes to run_single_algorithm
SingleNames ==
    {"BFS", "DFS", "UCS", "Greedy", "A*", "IDS", "IDA*", "A* Search",
     "BFS (fast)", "IDA* (Iterative Deepening A*)"}

\* the names a caller selects for run_comparison, at most MaxSelected of them
ComparisonNames == {"A*", "BFS", "UCS", "A* Search", "IDA*"}

Selections == UNION {[1..n -> ComparisonNames] : n \in 0..MaxSelected}

InitPlanner ==
    /\ cities = BuildCities(EmptyDict, CityNames)
    /\ \E w \in PlannerRoads : adjacency = BuildGraph(EmptyDict, w, 1)
    /\ run = Idle
    /\ planner = NoPlanner
    /\ pq = NoQueue
    /\ log = NoLog

RunSingle ==
    \E name \in SingleNames : \E goal \in CityNames : CallRunSingle(name, "A", goal)

RunComparison ==
    \E algorithms \in Selections : \E goal \in {"C", "D"} : \E parallel \in BOOLEAN :
        CallRunComparison("A", goal, algorithms, parallel)

Worker == \E i \in planner.pending : WorkerRuns(i)

NextPlanner ==
    \/ RunSingle
    \/ RunComparison
    \/ SequentialRun
    \/ Worker
    \/ SearchEnds
    \/ UCSRun
    \/ AStarRun
    \/ GreedyRun
    \/ BFSRun
    \/ DFSRun
    \/ IDSRun

SpecPlanner == InitPlanner /\ [][NextPlanner]_vars

\* A caller constructs a ComparisonResult from results of its own: results
\* with the path [A, C] at cost 2 or 3 and results without a path
SomeResults ==
    { ResultArgs(name, "A", "C", <<"A", "C">>, cost, n, rt, FALSE) :
        name \in {"BFS", "A*"}, cost \in {2, 3}, n \in 0..1, rt \in Runtimes }
    \cup
    { ResultArgs(name, "A", "C", <<>>, Inf, n, rt, FALSE) :
        name \in {"BFS", "A*"}, n \in 0..1, rt \in Runtimes }

InitComparison ==
    /\ cities = EmptyDict
    /\ adjacency = EmptyDict
    /\ run = Idle
    /\ planner = NoPlanner
    /\ pq = NoQueue
    /\ log = NoLog

\* the caller appends a result to the list it is going to pass
Gather(r) ==
    /\ planner.pc = "idle"
    /\ Len(planner.results) < MaxResults
    /\ planner' = [planner EXCEPT !.results = Append(@, r)]
    /\ UNCHANGED <<pq, log, cities, adjacency, run>>

\* ComparisonResult(start = "A", goal = "C", results = results)
Construct ==
    /\ planner.pc = "idle"
    /\ planner' = PlannerDone(NewPlanner("ComparisonResult", "A", "C", <<>>, FALSE),
                              "returned", "",
                              ComparisonResult("A", "C", planner.results))
    /\ UNCHANGED <<pq, log, cities, adjacency, run>>

NextComparison ==
    \/ \E r \in SomeResults : Gather(r)
    \/ Construct

SpecComparison == InitComparison /\ [][NextComparison]_vars

\* A caller pushes the items A and B at the priorities 0..2 and pops, in any order
QueueItems == {"A", "B"}

QueuePriorities == 0..2

InitQueue ==
    /\ cities = EmptyDict
    /\ adjacency = EmptyDict
    /\ run = Idle
    /\ planner = NoPlanner
    /\ pq = NoQueue
    /\ log = NoLog

Push == \E item \in QueueItems : \E priority \in QueuePriorities : CallPush(item, priority)

Pop == CallPop

NextQueue ==
    \/ Push
    \/ Pop

SpecQueue == InitQueue /\ [][NextQueue]_vars

\* The searches on the graphs of the planner, next to a caller of the queue
NextFrontier ==
    \/ StartSearch
    \/ UCSRun
    \/ AStarRun
    \/ GreedyRun
    \/ BFSRun
    \/ DFSRun
    \/ IDSRun
    \/ IDAStarRun
    \/ Push
    \/ Pop

SpecFrontier == InitPlanner /\ [][NextFrontier]_vars

\* Searches from or to a name that is no city of the graph, and coordinate
\* lookups of names, on the graphs of the planner
UnknownCity == "Z"

Names == CityNames \cup {UnknownCity}

StartUnknown ==
    \E alg \in Strategies : \E start \in Names : \E goal \in Names :
        /\ UnknownCity \in {start, goal}
        /\ Search(alg, start, goal)

GetCoordinates == \E city \in Names : CallGetCoordinates(city)

\* Greedy and IDA* call _h(start) before their loop and end there
NextUnknown ==
    \/ StartUnknown
    \/ GetCoordinates
    \/ UCSRun
    \/ AStarRun
    \/ BFSRun
    \/ DFSRun
    \/ IDSRun

SpecUnknown == InitPlanner /\ [][NextUnknown]_vars

\* A caller builds a graph with at most MaxCalls calls of add_city and
\* add_edge, with roads of 1 or 3 miles between A and B, one-way or not, and
\* asks for the neighbours of cities and of the name Z, and for the distance
\* of edges that are stored or not, in between
EdgeEnds == {"A", "B"}

InitGraph ==
    /\ cities = EmptyDict
    /\ adjacency = EmptyDict
    /\ run = Idle
    /\ planner = NoPlanner
    /\ pq = NoQueue
    /\ log = NoLog

AddCity ==
    \E name \in {"A", "B", "C"} :
        CallAddCity(name, Coordinates[name][1], Coordinates[name][2])

AddEdge ==
    \E a \in EdgeEnds : \E b \in EdgeEnds : \E d \in {1, 3} :
        \E bidirectional \in BOOLEAN : CallAddEdge(a, b, d, bidirectional)

GetNeighbors == \E city \in {"A", "B", "C", UnknownCity} : CallGetNeighbors(city)

GetDistance ==
    \E a \in {"A", "B", "C", UnknownCity} : \E b \in EdgeEnds : CallGetDistance(a, b)

NextGraph ==
    \/ AddCity
    \/ AddEdge
    \/ GetNeighbors
    \/ GetDistance

SpecGraph == InitGraph /\ [][NextGraph]_vars

\* parallel = True with the workers of the pool interleaved: threads[i] is the
\* strategy instance of the worker of future i, and the workers take their
\* steps in any order, each reading the one Graph they share.

\* an instance that goes on counting where the worker before it stands
SharedCounter(p, i) ==
    [InitOf(ALGO_REGISTRY[normalize_algorithm_name(p.to_run[i])], p.start, p.goal)
        EXCEPT !.nodes_expanded =
            IF (i - 1) \in DOMAIN p.threads THEN p.threads[i - 1].nodes_expanded ELSE 0]

\* algo_cls(self.graph, start, goal): an instance of its own for every call
NewWorker(p, i) ==
    InitOf(ALGO_REGISTRY[normalize_algorithm_name(p.to_run[i])], p.start, p.goal)

Busy(p) == {i \in DOMAIN p.threads : p.threads[i].pc = "run"}

PoolSize(p) == IF Len(p.to_run) < 4 THEN Len(p.to_run) ELSE 4

\* a free worker of the pool takes the next submitted call of
\* run_single_algorithm up to its search()
WorkerBegins ==
    /\ planner.pc = "running"
    /\ planner.parallel
    /\ planner.pending # {}
    /\ Cardinality(Busy(planner)) < PoolSize(planner)
    /\ LET i == CHOOSE k \in planner.pending : \A o \in planner.pending : k <= o
       IN  planner' = [planner EXCEPT !.pending = @ \ {i},
                                      !.threads = Put(@, i, NewWorker(planner, i))]
    /\ UNCHANGED <<pq, log, cities, adjacency, run>>

\* one step of the search of worker i
WorkerSteps(i) ==
    /\ planner.pc = "running"
    /\ i \in Busy(planner)
    /\ \E rt \in Runtimes : \E after \in {StepOf(planner.threads[i], rt)} :
         /\ planner' = [planner EXCEPT !.threads[i] = after]
         /\ adjacency' = PathCostEffect(adjacency, after.costed)
    /\ UNCHANGED <<pq, log, cities, run>>

\* the rest of run_single_algorithm of worker i, and as_completed handing its
\* future to the loop of run_comparison
WorkerEnds(i) ==
    LET mine == planner.threads[i]
        normalized_name == normalize_algorithm_name(planner.to_run[i])
        raised == mine.outcome = "raised"
        result == [mine.result EXCEPT !.is_optimal = Annotated(normalized_name)]
        collect == ~raised /\ planner.failed = ""
        p == [planner EXCEPT
                !.completed = Append(@, i),
                !.failed = IF @ = "" /\ raised THEN mine.error ELSE @,
                !.results = IF collect THEN Append(@, result) ELSE @,
                !.created = IF collect THEN Append(@, mine.result) ELSE @]
    IN  /\ planner.pc = "running"
        /\ i \in DOMAIN planner.threads
        /\ planner.threads[i].pc = "done"
        /\ i \notin SeqToSet(planner.completed)
        /\ planner' =
             IF Len(p.completed) < Len(p.to_run) THEN p
             ELSE IF p.failed # "" THEN PlannerDone(p, "raised", p.failed, NoResult)
             ELSE Assemble(p)
        /\ UNCHANGED <<pq, log, cities, adjacency, run>>

\* run_comparison(parallel = True) of at most MaxWorkers of these names
ParallelNames == {"A*", "BFS", "UCS", "Greedy", "IDA*"}

RunParallel ==
    \E n \in 0..MaxWorkers : \E algorithms \in [1..n -> ParallelNames] :
        \E goal \in {"C", "D"} : CallRunComparison("A", goal, algorithms, TRUE)

WorkerStep == \E i \in DOMAIN planner.threads : WorkerSteps(i)

WorkerEnd == \E i \in DOMAIN planner.threads : WorkerEnds(i)

NextParallel ==
    \/ RunParallel
    \/ WorkerBegins
    \/ WorkerStep
    \/ WorkerEnd

SpecParallel == InitPlanner /\ [][NextParallel]_vars

----------------------------------------------------------------------------
(* What the claims speak of *)

\* the least total weight of a path from a to b of at most k edges (Inf: none)
RECURSIVE CostWithin(_, _, _, _), LeastVia(_, _, _, _)
CostWithin(adj, a, b, k) ==
    IF a = b THEN 0
    ELSE IF k = 0 THEN Inf
    ELSE LeastVia(adj, get_neighbors(adj, a), b, k)

LeastVia(adj, items, b, k) ==
    IF items = <<>> THEN Inf
    ELSE LET via == CostWithin(adj, Head(items)[1], b, k - 1)
             here == IF via = Inf THEN Inf ELSE Head(items)[2] + via
             rest == LeastVia(adj, Tail(items), b, k)
         IN  IF here < rest THEN here ELSE rest

MinCost(a, b) == CostWithin(adjacency, a, b, Cardinality(CityNames) - 1)

Reachable(a, b) == MinCost(a, b) < Inf

\* the heuristic never exceeds the least cost to the goal
Admissible(goal) == \A n \in CityNames : Heuristic(n, goal) <= MinCost(n, goal)

NonNegative ==
    \A a \in DOMAIN adjacency : \A i \in 1..Len(adjacency[a]) : adjacency[a][i][2] >= 0

Done(alg) == run.pc = "done" /\ run.alg = alg

Returned == run.outcome = "returned"

\* every consecutive pair of the path has a stored edge
IsRoute(path, start, goal) ==
    /\ path # <<>>
    /\ path[1] = start
    /\ path[Len(path)] = goal
    /\ \A i \in 1..(Len(path) - 1) : ~get_distance_raises(adjacency, path[i], path[i + 1])

\* the graph of the scenario: A-B = 1, B-C = 1, A-C = 3, D without a road
ScenarioGraph ==
    adjacency = add_edge(add_edge(add_edge(EmptyDict, "A", "B", 1, TRUE),
                                  "A", "C", 3, TRUE), "B", "C", 1, TRUE)

Optimal == {"UCS", "A*", "IDA*"}

\* the least number of edges of a path from a to b of at most k edges (Inf: none)
RECURSIVE HopsWithin(_, _, _, _), FewestVia(_, _, _, _)
HopsWithin(adj, a, b, k) ==
    IF a = b THEN 0
    ELSE IF k = 0 THEN Inf
    ELSE FewestVia(adj, get_neighbors(adj, a), b, k)

FewestVia(adj, items, b, k) ==
    IF items = <<>> THEN Inf
    ELSE LET via == HopsWithin(adj, Head(items)[1], b, k - 1)
             here == IF via = Inf THEN Inf ELSE 1 + via
             rest == FewestVia(adj, Tail(items), b, k)
         IN  IF here < rest THEN here ELSE rest

MinHops(a, b) == HopsWithin(adjacency, a, b, Cardinality(CityNames) - 1)

Edges(path) == Len(path) - 1

Unreachable == ~Reachable(run.start, run.goal)

----------------------------------------------------------------------------
(* The claims *)

\* C1: on a graph with non-negative weights and a reachable goal, UCS.search
\* returns a result whose cost is the least total weight of a start-to-goal
\* path and whose is_optimal is true
C1_UCSReturnsMinimumCost ==
    (Done("UCS") /\ NonNegative /\ Reachable(run.start, run.goal)) =>
        /\ Returned
        /\ run.result.cost = MinCost(run.start, run.goal)
        /\ run.result.is_optimal

\* the scenario A-B = 1, B-C = 1, A-C = 3: UCS(A, C) has found [A, B, C] at cost 2
\* and the SearchResult call it makes with them raises
C1_ScenarioRaises ==
    /\ ScenarioGraph
    /\ Done("UCS")
    /\ run.goal = "C"
    /\ run.outcome = "raised"
    /\ run.error = "TypeError"
    /\ run.args.path = <<"A", "B", "C">>
    /\ run.args.cost = 2

\* C2: with non-negative weights, an admissible heuristic and a reachable goal,
\* AStar.search and UCS.search return the same cost, the least path cost
C2_AStarAndUCSAgree ==
    (Done("A*") /\ NonNegative /\ Admissible(run.goal)
                /\ Reachable(run.start, run.goal)) =>
        LET ucs == Complete(UCSInit(run.start, run.goal), 0)
        IN  /\ Returned
            /\ ucs.outcome = "returned"
            /\ run.result.cost = ucs.result.cost
            /\ run.result.cost = MinCost(run.start, run.goal)

\* A* has returned the least cost, above 0, where UCS on the same input raises
C2_AStarAloneReturns ==
    /\ Done("A*")
    /\ NonNegative /\ Admissible(run.goal) /\ Reachable(run.start, run.goal)
    /\ Returned
    /\ run.result.cost = MinCost(run.start, run.goal)
    /\ run.result.cost > 0
    /\ Complete(UCSInit(run.start, run.goal), 0).outcome = "raised"

\* C3: every search() returns a SearchResult and does not raise; the result
\* carries the tag of its strategy and the requested start and goal
C3_SearchReturnsResult ==
    run.pc = "done" =>
        /\ Returned
        /\ run.result.algorithm_name = run.alg
        /\ run.result.start = run.start
        /\ run.result.goal = run.goal

\* DFS has walked to a reachable goal and its SearchResult call raises
C3_DFSRaises ==
    /\ Done("DFS")
    /\ Reachable(run.start, run.goal)
    /\ run.found
    /\ run.outcome = "raised"
    /\ run.error = "TypeError"

\* C4: for every strategy and a reachable goal, the returned path is non-empty,
\* goes from start to goal, and each consecutive pair in it has a stored edge
C4_ReturnedPathIsRoute ==
    (run.pc = "done" /\ Reachable(run.start, run.goal)) =>
        /\ Returned
        /\ IsRoute(run.result.path, run.start, run.goal)

\* UCS has rebuilt a route of two edges and hands no result back
C4_RouteNotReturned ==
    /\ Done("UCS")
    /\ run.outcome = "raised"
    /\ IsRoute(run.args.path, run.start, run.goal)
    /\ Len(run.args.path) = 3

\* C5: for every strategy and an unreachable goal, search() returns a result
\* with an empty path, cost +infinity and is_optimal false, and never raises
C5_UnreachableIsAResult ==
    (run.pc = "done" /\ Unreachable) =>
        /\ Returned
        /\ run.result.path = <<>>
        /\ run.result.cost = Inf
        /\ run.result.is_optimal = FALSE

\* IDS has run out of depths for a goal without a road and raises
C5_IDSRaises ==
    /\ Done("IDS")
    /\ Unreachable
    /\ run.depth > DepthCap
    /\ run.outcome = "raised"
    /\ run.error = "TypeError"

\* C6: with non-negative weights and an admissible heuristic, every strategy's
\* search for a reachable goal yields a result whose cost is the sum of the
\* stored weights over the consecutive pairs of its path
C6_CostIsSumOfEdges ==
    (run.pc = "done" /\ NonNegative /\ Admissible(run.goal)
                     /\ Reachable(run.start, run.goal)) =>
        /\ Returned
        /\ run.result.cost = PathCost(adjacency, run.result.path)

\* UCS has a cost above 0 that agrees with its path, and no result to carry it
C6_SumNotReturned ==
    /\ Done("UCS")
    /\ NonNegative /\ Admissible(run.goal)
    /\ run.outcome = "raised"
    /\ run.args.path # <<>>
    /\ run.args.cost = PathCost(adjacency, run.args.path)
    /\ run.args.cost > 0

\* C7: with non-negative weights, an admissible heuristic and a reachable goal,
\* IDAStar.search never runs more threshold iterations than there are distinct
\* f-values g + h in its search, and it ends by returning the cost that
\* AStar.search returns for the same start and goal
C7_IDAStarBoundedAndAgreesWithAStar ==
    (run.alg = "IDA*" /\ NonNegative /\ Admissible(run.goal)
                      /\ Reachable(run.start, run.goal)) =>
        /\ run.iterations <= Cardinality(run.fvalues)
        /\ run.pc = "done" =>
             LET astar == Complete(AStarInit(run.start, run.goal), 0)
             IN  /\ Returned
                 /\ astar.outcome = "returned"
                 /\ run.result.cost = astar.result.cost

\* IDA* has raised its threshold twice and returned a route of two edges
C7_ThresholdRaisedTwice ==
    /\ Done("IDA*")
    /\ NonNegative /\ Admissible(run.goal) /\ Reachable(run.start, run.goal)
    /\ Returned
    /\ run.iterations = 3
    /\ Len(run.result.path) = 3
    /\ run.result.cost > 0

\* C8: the result of every successful search has is_optimal true for UCS, A*
\* and IDA*, and false for BFS, DFS, Greedy and IDS
C8_OptimalFlagByStrategy ==
    (run.pc = "done" /\ Reachable(run.start, run.goal)) =>
        /\ Returned
        /\ run.result.is_optimal = (run.alg \in Optimal)

\* DFS has found the goal and calls SearchResult with six positional arguments,
\* True the fifth of them, which raises
C8_DFSPassesTrue ==
    /\ Done("DFS")
    /\ Reachable(run.start, run.goal)
    /\ run.start # run.goal
    /\ run.outcome = "raised"
    /\ DOMAIN run.args = {Fields[i] : i \in 1..6}
    /\ run.args[Fields[5]] = TRUE
    /\ run.args[Fields[6]] = "DFS"

\* C9: for a goal that is unreachable from start, run_single_algorithm hands
\* back, for every registered strategy, a result with an empty path, cost
\* +infinity and is_optimal false, and so is every result of a ComparisonResult
C9_PlannerUnreachableResult ==
    LET unreachable(r) == r.path = <<>> /\ r.cost = Inf /\ r.is_optimal = FALSE
    IN  (planner.pc = "done" /\ ~Reachable(planner.start, planner.goal)) =>
            /\ (planner.call = "run_single_algorithm"
                  /\ normalize_algorithm_name(planner.algorithms[1])
                        \in DOMAIN ALGO_REGISTRY) =>
                    planner.outcome = "returned" /\ unreachable(planner.value)
            /\ (planner.call = "run_comparison" /\ planner.outcome = "returned") =>
                    \A i \in 1..Len(planner.value.results) :
                        unreachable(planner.value.results[i])

\* run_single_algorithm("A*", "A", "D") has returned the empty path at cost
\* +infinity with is_optimal true
C9_AStarAnnotatedOptimal ==
    /\ planner.pc = "done"
    /\ planner.call = "run_single_algorithm"
    /\ planner.algorithms = <<"A*">>
    /\ planner.goal = "D"
    /\ ~Reachable(planner.start, planner.goal)
    /\ planner.outcome = "returned"
    /\ planner.value.path = <<>>
    /\ planner.value.cost = Inf
    /\ planner.value.is_optimal

\* C10: the results of the ComparisonResult that run_comparison returns are in
\* the order in which their algorithms were selected, whatever the order in
\* which the workers complete, and also without workers
C10_ResultsInSelectionOrder ==
    (planner.pc = "done" /\ planner.call = "run_comparison"
                         /\ planner.outcome = "returned") =>
        NamesOf(planner.value.results) = planner.to_run

\* A*, BFS, A* were selected and the results are those of BFS, A*, A*
C10_RepeatedNameMovesBack ==
    /\ planner.pc = "done"
    /\ planner.call = "run_comparison"
    /\ planner.outcome = "returned"
    /\ planner.algorithms = <<"A*", "BFS", "A*">>
    /\ planner.to_run = planner.algorithms
    /\ NamesOf(planner.value.results) = <<"BFS", "A*", "A*">>

\* the names of the results with a path whose cost no result with a path undercuts
Cheapest(results) ==
    NamesOf(SelectSeq(results,
        LAMBDA r : /\ r.path # <<>>
                   /\ \A i \in 1..Len(results) :
                        results[i].path # <<>> => r.cost <= results[i].cost))

\* C11: optimal_algorithms of a ComparisonResult is the list of the names of the
\* results with a non-empty path whose cost is the least among them; a
\* comparison of UCS and A* on a reachable goal returns one that holds both names
C11_OptimalAlgorithmsAreCheapest ==
    (planner.pc = "done" /\ planner.call = "run_comparison") =>
        /\ planner.outcome = "returned" =>
             planner.value.optimal_algorithms = Cheapest(planner.value.results)
        /\ ({"UCS", "A*"} \subseteq SeqToSet(planner.to_run)
              /\ Reachable(planner.start, planner.goal)) =>
                /\ planner.outcome = "returned"
                /\ {"UCS", "A*"} \subseteq SeqToSet(planner.value.optimal_algorithms)

\* run_comparison("A", "C", ["UCS", "A*"]) ends with the TypeError of UCS
C11_UCSAndAStarRaise ==
    /\ planner.pc = "done"
    /\ planner.call = "run_comparison"
    /\ planner.algorithms = <<"UCS", "A*">>
    /\ Reachable(planner.start, planner.goal)
    /\ planner.outcome = "raised"
    /\ planner.error = "TypeError"

Constructed == planner.pc = "done" /\ planner.call = "ComparisonResult"

NamesWithPath(results) ==
    {results[i].algorithm_name : i \in {j \in 1..Len(results) : results[j].path # <<>>}}

\* C12: the derived fields of a ComparisonResult name no result with an empty
\* path: without any result with a path optimal_algorithms is empty and
\* fastest_algorithm and least_expanded_algorithm are ""; otherwise every
\* derived name is the name of a result with a path
C12_DerivedFieldsNameFeasible ==
    Constructed =>
        LET v == planner.value
            names == NamesWithPath(v.results)
        IN  IF names = {}
            THEN /\ v.optimal_algorithms = <<>>
                 /\ v.fastest_algorithm = ""
                 /\ v.least_expanded_algorithm = ""
            ELSE /\ v.optimal_algorithms # <<>>
                 /\ SeqToSet(v.optimal_algorithms) \subseteq names
                 /\ v.fastest_algorithm \in names
                 /\ v.least_expanded_algorithm \in names

\* a BFS result without a path, the fastest and the least expanded of all,
\* next to an A* result with a path
C12_InfeasibleIsFastest ==
    /\ Constructed
    /\ Len(planner.value.results) = 2
    /\ planner.value.results[1].algorithm_name = "BFS"
    /\ planner.value.results[1].path = <<>>
    /\ planner.value.results[1].runtime = 0
    /\ planner.value.results[1].nodes_expanded = 0
    /\ planner.value.results[2].algorithm_name = "A*"
    /\ planner.value.results[2].path # <<>>
    /\ planner.value.results[2].runtime = 1
    /\ planner.value.results[2].nodes_expanded = 1
    /\ planner.value.fastest_algorithm = "A*"

Known(name) == normalize_algorithm_name(name) \in DOMAIN ALGO_REGISTRY

KnownPlaces(algorithms) == {i \in 1..Len(algorithms) : Known(algorithms[i])}

\* C13: run_comparison drops the selected names that are no known algorithm,
\* without an error, and runs the others only; when no selected name is known
\* it fails with the ValueError of "No valid algorithms selected." and runs no
\* search
C13_UnknownNamesDropped ==
    planner.call = "run_comparison" =>
        LET known == KnownPlaces(planner.algorithms)
        IN  IF known = {}
            THEN /\ planner.pc = "done"
                 /\ planner.outcome = "raised"
                 /\ planner.error = "ValueError"
                 /\ planner.completed = <<>>
                 /\ run = Idle
            ELSE /\ SeqToSet(planner.to_run) \subseteq DOMAIN ALGO_REGISTRY
                 /\ Len(planner.to_run) = Cardinality(known)
                 /\ planner.pc = "searching" =>
                        run.alg = ALGO_REGISTRY[planner.to_run[planner.current]]
                 /\ planner.error # "ValueError"
                 /\ planner.outcome = "returned" =>
                        Len(planner.value.results) = Cardinality(known)

\* IDA*, BFS, IDA* were selected and the comparison returns the result of BFS alone
C13_OnlyBFSRuns ==
    /\ planner.pc = "done"
    /\ planner.call = "run_comparison"
    /\ planner.algorithms = <<"IDA*", "BFS", "IDA*">>
    /\ planner.outcome = "returned"
    /\ planner.completed = <<1>>
    /\ NamesOf(planner.value.results) = <<"BFS">>

\* C14: after any pushes and pops, pop removes and returns the item of the
\* entry with the least priority among those held and, among the entries of
\* that priority, of the one pushed first; every push adds one entry, also of
\* an item that is already held
C14_PopTakesLeastThenFirst ==
    /\ (pq.op = "pop" /\ pq.before # {}) =>
          /\ pq.outcome = "returned"
          /\ \E e \in pq.before :
                /\ pq.value = e[3]
                /\ \A o \in pq.before :
                      e[1] < o[1] \/ (e[1] = o[1] /\ e[2] <= o[2])
                /\ pq.q.h = pq.before \ {e}
    /\ pq.op = "push" =>
          /\ Cardinality(pq.q.h) = Cardinality(pq.before) + 1
          /\ \E e \in pq.q.h \ pq.before :
                /\ e[1] = pq.priority
                /\ e[3] = pq.item
                /\ \A o \in pq.before : o[2] < e[2]

\* B, A, B were pushed at priority 1 and a later A at priority 2; pop has
\* returned B and left the second B with both A
C14_TieGoesToFirstPush ==
    /\ pq.op = "pop"
    /\ pq.before = {<<1, 0, "B">>, <<1, 1, "A">>, <<1, 2, "B">>, <<2, 3, "A">>}
    /\ pq.value = "B"
    /\ pq.q.h = {<<1, 1, "A">>, <<1, 2, "B">>, <<2, 3, "A">>}

\* C15: UCS, Greedy and A* never pop their frontier when it is empty, and
\* pop on an empty PriorityQueue raises an error and returns no value
C15_NoPopOnEmptyFrontier ==
    /\ run.alg \in {"UCS", "Greedy", "A*"} => run.error # "IndexError"
    /\ (pq.op = "pop" /\ pq.before = {}) =>
          /\ pq.outcome = "raised"
          /\ pq.error = "IndexError"
          /\ pq.value = ""
          /\ pq.q.h = {}

\* A* has expanded A, B and C for a goal without a road, found its frontier
\* empty and returned the result without a path
C15_FrontierExhausted ==
    /\ Done("A*")
    /\ PQIsEmpty(run.frontier)
    /\ run.frontier.push_id > 2
    /\ run.nodes_expanded >= 3
    /\ Returned
    /\ run.result.path = <<>>

C17_UnknownNodeFailsFast ==
    /\ (run.pc = "done" /\ ({run.start, run.goal} \ DOMAIN cities) # {}) =>
          /\ run.outcome = "raised"
          /\ run.error = "KeyError"
    /\ (log.op = "get_coordinates" /\ log.city \notin DOMAIN cities) =>
          /\ log.outcome = "raised"
          /\ log.error = "KeyError"

\* BFS from Z, a name that is no city, to the city C has returned the result
\* without a path
C17_BFSFromUnknownReturns ==
    /\ Done("BFS")
    /\ run.start = UnknownCity
    /\ run.start \notin DOMAIN cities
    /\ run.goal = "C"
    /\ Returned
    /\ run.result.path = <<>>
    /\ run.result.cost = Inf

\* C18: the result that run_single_algorithm hands out, and every result of the
\* ComparisonResult of run_comparison, has the field values, is_optimal among
\* them, that the search() of its strategy created it with
C18_ResultUnchangedAfterCreation ==
    (planner.pc = "done" /\ planner.outcome = "returned") =>
        IF planner.call = "run_single_algorithm"
        THEN planner.value = planner.created[1]
        ELSE planner.call = "run_comparison" =>
                SeqToSet(planner.value.results) = SeqToSet(planner.created)

\* a comparison of A* alone for a goal without a road: search() created the
\* result with is_optimal false and the ComparisonResult holds it with true
C18_FlagRewritten ==
    /\ planner.pc = "done"
    /\ planner.call = "run_comparison"
    /\ planner.algorithms = <<"A*">>
    /\ planner.outcome = "returned"
    /\ planner.created[1].path = <<>>
    /\ planner.created[1].is_optimal = FALSE
    /\ planner.value.results[1].is_optimal = TRUE
    /\ planner.value.results[1] = [planner.created[1] EXCEPT !.is_optimal = TRUE]

\* ---- C19 ----
\* Both directions of the pair a, b are stored, with the same weight
Symmetric(adj, a, b) ==
    /\ HasKey(Get(adj, a, <<>>), b)
    /\ HasKey(Get(adj, b, <<>>), a)
    /\ ItemValue(adj[a], b) = ItemValue(adj[b], a)

C20_GetNeighborsReadsOnly ==
    [][(log'.op = "get_neighbors" /\ log' # log) =>
          /\ log'.outcome = "returned"
          /\ cities' = cities
          /\ adjacency' = adjacency
          /\ (\/ log'.city \notin DOMAIN adjacency
              \/ adjacency[log'.city] = <<>>) => log'.value = <<>>
          /\ log'.city \in DOMAIN adjacency
                => log'.value = adjacency[log'.city]]_vars

\* the neighbours of a name that is neither a city nor an end of a road were
\* asked for, on a graph with cities and roads
C20_AbsentNameAsked ==
    /\ log.op = "get_neighbors"
    /\ log.outcome = "returned"
    /\ log.city = UnknownCity
    /\ log.value = <<>>
    /\ log.city \notin DOMAIN cities
    /\ log.city \notin DOMAIN adjacency
    /\ DOMAIN cities # {}
    /\ DOMAIN adjacency # {}

\* ---- C21 ----
\* C21: for a reachable goal BFS.search returns a route with the least number
\* of edges of any start-to-goal path, and its cost is the sum of the edge
\* weights along that route, which need not be the least cost
C21_BFSReturnsFewestEdges ==
    (Done("BFS") /\ Reachable(run.start, run.goal)) =>
        /\ Returned
        /\ IsRoute(run.result.path, run.start, run.goal)
        /\ Edges(run.result.path) = MinHops(run.start, run.goal)
        /\ run.result.cost = PathCost(adjacency, run.result.path)

\* BFS has returned the one-edge route of the scenario, which costs more than
\* the two-edge route
C21_DirectRoadCostsMore ==
    /\ ScenarioGraph
    /\ Done("BFS")
    /\ Returned
    /\ run.result.path = <<"A", "C">>
    /\ run.result.cost = 3
    /\ MinCost("A", "C") = 2

\* ---- C22 ----
\* C22: for a goal whose least number of edges from start is within the depth
\* cap, IDS.search returns the route found at the smallest depth bound that
\* succeeds: that bound and the number of edges of the route both equal the
\* least number of edges of a start-to-goal path, the number BFS returns
C22_IDSReturnsFewestEdges ==
    (Done("IDS") /\ MinHops(run.start, run.goal) <= DepthCap) =>
        LET bfs == Complete(BFSInit(run.start, run.goal), 0)
        IN  /\ Returned
            /\ IsRoute(run.result.path, run.start, run.goal)
            /\ run.depth = MinHops(run.start, run.goal)
            /\ Edges(run.result.path) = MinHops(run.start, run.goal)
            /\ bfs.outcome = "returned"
            /\ Edges(run.result.path) = Edges(bfs.result.path)

\* IDS has returned the direct road of the scenario at depth bound 1, where
\* the first neighbour of A leads to the goal by two edges
C22_ShallowRouteFirst ==
    /\ ScenarioGraph
    /\ Done("IDS")
    /\ Returned
    /\ run.depth = 1
    /\ run.result.path = <<"A", "C">>
    /\ run.nodes_expanded = 1

\* ---- C23 ----
\* C23: IDS.search runs depth_limited_search with the bounds 0, 1, 2, ... in
\* increasing order and never with a bound above the cap of 50; when no bound
\* up to the cap finds the goal it stops and returns the unreachable result
C23_IDSBoundsStopAtCap ==
    /\ [][(run.alg = "IDS" /\ run.pc = "run" /\ run'.pc = "run")
              => run'.depth = run.depth + 1]_vars
    /\ [](run.alg = "IDS" => run.depth <= DepthCap)
    /\ []((Done("IDS") /\ Unreachable) =>
              /\ Returned
              /\ run.result.path = <<>>
              /\ run.result.cost = Inf)

\* IDS has run depth_limited_search with the bound 51 for a goal without a
\* road, expanding cities at every bound from 1 on, and raises
C23_BoundAboveCapRun ==
    /\ ScenarioGraph
    /\ Done("IDS")
    /\ run.goal = "D"
    /\ run.depth = DepthCap + 1
    /\ run.nodes_expanded > DepthCap
    /\ run.outcome = "raised"
    /\ run.error = "TypeError"
    /\ run.result = NoResult

\* ---- C24 ----
\* C24: on every graph with non-negative weights, for a reachable and for an
\* unreachable goal, a search() of each of the seven strategies that has begun
\* eventually ends
C24_EverySearchTerminates ==
    (run.pc = "run" /\ run.alg \in Strategies /\ NonNegative) ~> (run.pc = "done")

\* IDA* has raised its threshold until nothing was left above it and has
\* returned the result of a goal without a road
C24_ThresholdLoopEnded ==
    /\ Done("IDA*")
    /\ NonNegative
    /\ Unreachable
    /\ Returned
    /\ run.result.path = <<>>
    /\ run.result.cost = Inf
    /\ run.iterations >= 3
    /\ run.stack = <<>>

\* ---- C25 ----
\* the search of one strategy run by itself on the graph
Alone(name, start, goal) ==
    Complete(InitOf(ALGO_REGISTRY[normalize_algorithm_name(name)], start, goal), 0)

SameFindings(r, o) ==
    /\ r.algorithm_name = o.algorithm_name
    /\ r.path = o.path
    /\ r.cost = o.cost
    /\ r.nodes_expanded = o.nodes_expanded

\* run_comparison(parallel = False): the searches one after another
InSequence(to_run, start, goal) ==
    LET alone == [k \in 1..Len(to_run) |-> Alone(to_run[k], start, goal)]
        annotated ==
            [k \in 1..Len(to_run) |->
                [alone[k].result EXCEPT
                    !.is_optimal = Annotated(normalize_algorithm_name(to_run[k]))]]
    IN  IF \E k \in 1..Len(to_run) : alone[k].outcome = "raised"
        THEN [outcome |-> "raised", results |-> <<>>]
        ELSE [outcome |-> "returned", results |-> SortResults(annotated, to_run)]

\* C25: when run_comparison runs the selected strategies concurrently, in every
\* interleaving of their steps each search ends as it does when run by itself,
\* with the same path, cost and nodes_expanded, and run_comparison ends as the
\* sequential run does, with the same path, cost and nodes_expanded in every
\* place of its results
C25_ParallelSameAsSequential ==
    (planner.call = "run_comparison" /\ planner.parallel) =>
        /\ \A i \in DOMAIN planner.threads :
             planner.threads[i].pc = "done" =>
                LET mine == planner.threads[i]
                    alone == Alone(planner.to_run[i], planner.start, planner.goal)
                IN  /\ mine.outcome = alone.outcome
                    /\ mine.nodes_expanded = alone.nodes_expanded
                    /\ mine.outcome = "returned" =>
                         SameFindings(mine.result, alone.result)
        /\ (planner.pc = "done" /\ planner.to_run # <<>>) =>
             LET seq == InSequence(planner.to_run, planner.start, planner.goal)
             IN  /\ planner.outcome = seq.outcome
                 /\ planner.outcome = "returned" =>
                      /\ Len(planner.value.results) = Len(seq.results)
                      /\ \A k \in 1..Len(seq.results) :
                           SameFindings(planner.value.results[k], seq.results[k])

\* A* and BFS were run concurrently, BFS with its direct road was collected
\* before A* with its two roads, and the comparison holds both in selection order
C25_SecondWorkerCollectedFirst ==
    /\ planner.pc = "done"
    /\ planner.parallel
    /\ planner.outcome = "returned"
    /\ planner.to_run = <<"A*", "BFS">>
    /\ planner.completed = <<2, 1>>
    /\ NamesOf(planner.value.results) = <<"A*", "BFS">>
    /\ planner.value.results[1].path = <<"A", "B", "C">>
    /\ planner.value.results[2].path = <<"A", "C">>
    /\ planner.value.results[1].nodes_expanded > 0

\* ---- C26 ----
\* C26: no step of a search of any strategy, from the start of search() to its
\* return, changes the cities mapping or the adjacency mapping of the graph,
\* the set of keys of the adjacency included
C26_SearchLeavesGraphUnchanged ==
    [][(run'.pc \in {"run", "done"}) =>
          /\ cities' = cities
          /\ adjacency' = adjacency
          /\ DOMAIN adjacency' = DOMAIN adjacency]_vars

\* A* has expanded every city with a road in search of D and returned no
\* route, and D is still no key of the adjacency
C26_RoadlessCityStillNoKey ==
    /\ ScenarioGraph
    /\ Done("A*")
    /\ run.goal = "D"
    /\ Returned
    /\ run.nodes_expanded >= 3
    /\ "D" \in DOMAIN cities
    /\ "D" \notin DOMAIN adjacency

\* ---- C27 ----
\* C27: on the graph with cities A(0,0), B(0,1), C(1,1) and edges A-B = 1,
\* B-C = 1, A-C = 3, where h(C) = 0 < h(B) < h(A), Greedy best-first search from
\* A to C expands A alone and returns the direct path [A, C], of cost 3
C27_GreedyTakesDirectRoad ==
    (ScenarioGraph /\ Done("Greedy") /\ run.start = "A" /\ run.goal = "C") =>
        /\ Heuristic("C", "C") = 0
        /\ Heuristic("C", "C") < Heuristic("B", "C")
        /\ Heuristic("B", "C") < Heuristic("A", "C")
        /\ Returned
        /\ run.result.path = <<"A", "C">>
        /\ run.result.cost = 3
        /\ run.result.nodes_expanded = 1

\* Greedy has popped C before B on the scenario and returned
C27_GoalPoppedBeforeB ==
    /\ ScenarioGraph
    /\ Done("Greedy")
    /\ run.goal = "C"
    /\ Returned
    /\ run.came_from = Put(Put(EmptyDict, "B", "A"), "C", "A")
    /\ Cardinality(run.frontier.h) = 1
    /\ \E e \in run.frontier.h : e[3] = "B"

\* C27 as stated: on that graph Greedy from A to C returns the path [A, B, C]
C27_GreedyReturnsTwoRoads ==
    (ScenarioGraph /\ Done("Greedy") /\ run.start = "A" /\ run.goal = "C") =>
        /\ Returned
        /\ run.result.path = <<"A", "B", "C">>

\* ---- C28 ----
\* the heuristic is above 0 on every city but the goal
NonZeroHeuristic(goal) == \A n \in CityNames \ {goal} : Heuristic(n, goal) > 0

\* C28: for the same graph, start and goal, with an admissible heuristic that
\* is non-zero on every non-goal city, the nodes_expanded of the result of A*
\* is at most the nodes_expanded of the result of UCS
C28_AStarExpandsNoMoreThanUCS ==
    (Done("A*") /\ NonNegative /\ Admissible(run.goal)
                /\ NonZeroHeuristic(run.goal)) =>
        LET ucs == Complete(UCSInit(run.start, run.goal), 0)
        IN  /\ Returned
            /\ ucs.outcome = "returned"
            /\ run.result.nodes_expanded <= ucs.result.nodes_expanded

\* A* reports fewer expansions than UCS has counted on the same input, and UCS
\* raises instead of reporting its count
C28_UCSCountNotReported ==
    /\ Done("A*")
    /\ NonNegative /\ Admissible(run.goal) /\ NonZeroHeuristic(run.goal)
    /\ Returned
    /\ LET ucs == Complete(UCSInit(run.start, run.goal), 0)
       IN  /\ ucs.outcome = "raised"
           /\ ucs.error = "TypeError"
           /\ ucs.result = NoResult
           /\ run.result.nodes_expanded < ucs.nodes_expanded

\* ---- C29 ----
IDARunning == run.alg = "IDA*" /\ run.pc = "run"

\* C29: the first threshold of IDAStar.search is h(start, goal); an iteration
\* that ends without the goal leaves as the next threshold the least f = g + h
\* of the nodes it pruned for an f above its threshold, so every new threshold
\* is above the one before; and a node is expanded only with an f that is at
\* most the threshold of the iteration
C29_ThresholdsRiseToLeastPruned ==
    /\ []((IDARunning /\ run.iterations = 0) =>
              run.threshold = Heuristic(run.start, run.goal))
    /\ []((IDARunning /\ run.iterations >= 1 /\ run.stack = <<>>) =>
              /\ run.threshold \in run.pruned
              /\ \A f \in run.pruned : run.threshold <= f)
    /\ [][(IDARunning /\ run'.threshold # run.threshold) =>
              /\ run'.threshold > run.threshold
              /\ run'.stack = <<>>
              /\ \A f \in run'.pruned : f > run.threshold]_vars
    /\ [][(IDARunning /\ run'.nodes_expanded # run.nodes_expanded) =>
              /\ run'.nodes_expanded = run.nodes_expanded + 1
              /\ Last(run'.g_costs) + Heuristic(Last(run'.path), run.goal)
                    <= run'.threshold]_vars

\* the first iteration has pruned two nodes with different f and left the
\* smaller f as the threshold of the second
C29_LeastOfTwoPruned ==
    /\ IDARunning
    /\ run.iterations = 1
    /\ run.stack = <<>>
    /\ Cardinality(run.pruned) = 2
    /\ run.threshold > Heuristic(run.start, run.goal)
    /\ run.threshold \in run.pruned
    /\ \E f \in run.pruned : f > run.threshold
    /\ run.nodes_expanded = 1

\* ---- C30 ----
NoCityTwice(path) == \A i, j \in 1..Len(path) : path[i] = path[j] => i = j

Longest(a, b) == IF a < b THEN b ELSE a

\* C30: in every state of IDAStar._bounded_search the current path holds no
\* city twice, path and g_costs have the same length, g_costs[i] is the sum of
\* the edge weights along the first i cities of the path, and a step that
\* enters no deeper call (a pruned neighbour, or a call that returns without the
\* goal) leaves both lists as they were before the call it ends
C30_PathAndCostsInStep ==
    /\ []((run.alg = "IDA*" /\ run.outcome # "raised") =>
              /\ NoCityTwice(run.path)
              /\ Len(run.path) = Len(run.g_costs)
              /\ run.path[1] = run.start
              /\ \A i \in 1..Len(run.path) :
                    /\ ~PathCostRaises(adjacency, SubSeq(run.path, 1, i))
                    /\ run.g_costs[i] = PathCost(adjacency, SubSeq(run.path, 1, i))
              /\ (run.pc = "run" /\ run.stack # <<>>) => Len(run.path) = Len(run.stack))
    /\ [][(IDARunning /\ run'.pc = "run" /\ Len(run'.stack) <= Len(run.stack)) =>
              LET kept == Longest(Len(run'.stack), 1)
              IN  /\ run'.path = SubSeq(run.path, 1, kept)
                  /\ run'.g_costs = SubSeq(run.g_costs, 1, kept)]_vars

\* IDA* stands two roads from the start with a cost above 0, in its third
\* iteration or later, having expanded more nodes than there are cities
C30_CityExpandedAgain ==
    /\ IDARunning
    /\ run.iterations >= 3
    /\ run.nodes_expanded > Cardinality(CityNames)
    /\ Len(run.path) = 3
    /\ Len(run.stack) = 3
    /\ run.g_costs[3] > run.g_costs[2]
    /\ run.g_costs[2] > 0

\* ---- C31 ----
\* the cost UCS or A* has recorded for each node
Recorded == IF run.alg = "UCS" THEN run.cost_so_far ELSE run.g

\* the entry that the next pop takes is for a node that was already expanded
\* at the cost recorded for it now
StalePop ==
    /\ run.alg \in {"UCS", "A*"}
    /\ run.pc = "run"
    /\ run.frontier.h # {}
    /\ LET item == PQLeast(run.frontier)[3]
       IN  /\ item \in DOMAIN run.expanded_at
           /\ run.expanded_at[item] = Recorded[item]

\* C31: in UCS and A* a node may be in the frontier several times with
\* different priorities; the pop of a stale entry changes neither cost_so_far
\* or g nor the parent map, and pushes nothing: the frontier only loses the entry
C31_StalePopChangesNothing ==
    [][StalePop =>
          /\ run'.pc = "run"
          /\ run'.cost_so_far = run.cost_so_far
          /\ run'.g = run.g
          /\ run'.came_from = run.came_from
          /\ run'.frontier.h = run.frontier.h \ {PQLeast(run.frontier)}
          /\ run'.frontier.push_id = run.frontier.push_id]_vars

\* UCS has popped a second entry of a node it had expanded before: it counts
\* more expansions than it has expanded nodes, and a costlier entry of the
\* goal still waits in the frontier
C31_SecondEntryPopped ==
    /\ run.alg = "UCS"
    /\ run.pc = "run"
    /\ run.nodes_expanded > Cardinality(DOMAIN run.expanded_at)
    /\ \A n \in DOMAIN run.expanded_at : run.expanded_at[n] = run.cost_so_far[n]
    /\ \E e \in run.frontier.h : e[3] = run.goal

\* ---- C32 ----
ReachableFrom(start) == {n \in CityNames : Reachable(start, n)}

\* C32: in BFS, DFS and Greedy every node is expanded at most once in a search
\* and is given its parent link at most once, so nodes_expanded never exceeds
\* the number of nodes reachable from start, and the goal is never counted
C32_ExpandedAndLinkedOnce ==
    (run.alg \in {"BFS", "DFS", "Greedy"}) =>
        /\ NoCityTwice(run.expansions)
        /\ NoCityTwice(run.linked)
        /\ SeqToSet(run.linked) = DOMAIN run.came_from
        /\ run.nodes_expanded = Len(run.expansions)
        /\ SeqToSet(run.expansions) \subseteq ReachableFrom(run.start)
        /\ run.nodes_expanded <= Cardinality(ReachableFrom(run.start))
        /\ run.goal \notin SeqToSet(run.expansions)

\* Greedy has expanded each of the three cities with a road once, linked the
\* two it generated, and ended without the goal
C32_EveryReachableCityExpanded ==
    /\ ScenarioGraph
    /\ Done("Greedy")
    /\ run.goal = "D"
    /\ Returned
    /\ run.nodes_expanded = Cardinality(ReachableFrom(run.start))
    /\ SeqToSet(run.expansions) = {"A", "B", "C"}
    /\ SeqToSet(run.linked) = {"B", "C"}

\* ---- C33 ----
WithPath(results) == {i \in 1..Len(results) : results[i].path # <<>>}

\* the earliest of the results with a path that has the least of the keys
EarliestLeast(results, keys) ==
    CHOOSE i \in WithPath(results) :
        \A j \in WithPath(results) :
            /\ keys[i] <= keys[j]
            /\ j < i => keys[j] > keys[i]

\* C33: fastest_algorithm is the algorithm_name of the result with the least
\* runtime among the results with a path and least_expanded_algorithm that of
\* the result with the fewest nodes_expanded among them; of several that tie,
\* the earliest in the results order is named
C33_EarliestOfTheLeastIsNamed ==
    (Constructed /\ WithPath(planner.value.results) # {}) =>
        LET v == planner.value
        IN  /\ v.fastest_algorithm =
                 v.results[EarliestLeast(v.results, RuntimesOf(v.results))].algorithm_name
            /\ v.least_expanded_algorithm =
                 v.results[EarliestLeast(v.results, ExpandedOf(v.results))].algorithm_name

\* a BFS result and then an A* result, both with a path, with the same runtime
\* and the same nodes_expanded: BFS is named twice
C33_TieNamesTheFirst ==
    /\ Constructed
    /\ Len(planner.value.results) = 2
    /\ WithPath(planner.value.results) = {1, 2}
    /\ planner.value.results[1].algorithm_name = "BFS"
    /\ planner.value.results[2].algorithm_name = "A*"
    /\ planner.value.results[1].runtime = planner.value.results[2].runtime
    /\ planner.value.results[1].nodes_expanded = planner.value.results[2].nodes_expanded
    /\ planner.value.fastest_algorithm = "BFS"
    /\ planner.value.least_expanded_algorithm = "BFS"

\* ---- C34 ----
CoreTags == {"BFS", "DFS", "UCS", "Greedy", "A*", "IDA*"}

\* C34: each of the six core strategies BFS, DFS, UCS, Greedy, A* and IDA* can
\* be selected by its tag in run_single_algorithm and in run_comparison: the
\* call runs the strategy and yields a result that carries the tag, and the
\* tag is not treated as an unknown algorithm
C34_CoreTagRunsItsStrategy ==
    (planner.pc = "done" /\ planner.algorithms # <<>>
        /\ SeqToSet(planner.algorithms) \subseteq CoreTags) =>
        /\ planner.outcome = "returned"
        /\ planner.call = "run_single_algorithm" =>
              planner.value.algorithm_name = planner.algorithms[1]
        /\ planner.call = "run_comparison" =>
              SeqToSet(NamesOf(planner.value.results)) = SeqToSet(planner.algorithms)

\* run_single_algorithm("IDA*", ...) has ended with the ValueError of an
\* unknown algorithm and no search was run
C34_IDAStarIsUnknown ==
    /\ planner.pc = "done"
    /\ planner.call = "run_single_algorithm"
    /\ planner.algorithms = <<"IDA*">>
    /\ planner.outcome = "raised"
    /\ planner.error = "ValueError"
    /\ planner.completed = <<>>

\* ---- C35 ----
\* C35: for every strategy, when start equals goal (a city of the graph) the
\* search returns path = [start], cost = 0 and nodes_expanded = 0 and does
\* not report the goal as unreachable, whether or not start has any edges
C35_StartIsGoal ==
    (run.pc = "done" /\ run.start = run.goal) =>
        /\ Returned
        /\ run.result.path = <<run.start>>
        /\ run.result.cost = 0
        /\ run.result.nodes_expanded = 0

\* UCS with start = goal on a city without roads has popped the start, computed
\* the path [start] at cost 0 with nothing expanded, and its SearchResult call raises
C35_UCSRaisesAtStart ==
    /\ Done("UCS")
    /\ run.start = run.goal
    /\ get_neighbors(adjacency, run.start) = <<>>
    /\ run.args.path = <<run.start>>
    /\ run.args.cost = 0
    /\ run.args.nodes_expanded = 0
    /\ run.outcome = "raised"
    /\ run.error = "TypeError"

\* ---- C36 ----
\* the parent links from a node back to where they end, at most one link for
\* every city of the model
Lineage(came_from, n) == Backtrack(came_from, n, Cardinality(CityNames))

\* C36: in every state of UCS and A* on a graph with non-negative weights the
\* start is not a key of the parent map, the parent links of every recorded
\* node lead to start without a node twice, for every node n with parent p the
\* recorded cost of n is at least the recorded cost of p plus the weight of
\* the edge (p, n), and no step of the search increases a recorded cost
C36_ParentLinksFormATree ==
    /\ []((run.alg \in {"UCS", "A*"} /\ NonNegative) =>
            /\ run.start \notin DOMAIN run.came_from
            /\ DOMAIN run.came_from \subseteq DOMAIN Recorded
            /\ \A n \in DOMAIN Recorded :
                  /\ Lineage(run.came_from, n)[1] = run.start
                  /\ NoCityTwice(Lineage(run.came_from, n))
            /\ \A n \in DOMAIN run.came_from :
                  /\ ~get_distance_raises(adjacency, run.came_from[n], n)
                  /\ Recorded[n] >= Recorded[run.came_from[n]]
                                      + get_distance(adjacency, run.came_from[n], n))
    /\ [][(run.alg \in {"UCS", "A*"} /\ run.pc = "run" /\ run'.alg = run.alg) =>
             \A n \in DOMAIN Recorded :
                 /\ n \in DOMAIN Recorded'
                 /\ Recorded'[n] <= Recorded[n]]_vars

\* UCS has lowered the recorded cost of the goal C from 3, over the road A-C,
\* to 2 through B, and has given it B as its new parent
C36_CostLoweredAndRelinked ==
    /\ ScenarioGraph
    /\ run.alg = "UCS"
    /\ run.pc = "run"
    /\ run.goal = "C"
    /\ {"B", "C"} \subseteq DOMAIN run.cost_so_far
    /\ run.cost_so_far["B"] = 1
    /\ run.cost_so_far["C"] = 2
    /\ run.came_from["C"] = "B"
    /\ \E e \in run.frontier.h : e[3] = "C" /\ e[1] = 3

\* ---- C37 ----
\* C37: the nodes_expanded of the result of a search() call counts only the
\* expansions of that call: a second search() on the same strategy instance
\* returns the same nodes_expanded as the first
C37_SecondCallCountsTheSame ==
    (run.pc = "done" /\ Returned /\ run.earlier # <<>>
        /\ run.earlier[1].outcome = "returned") =>
        run.result.nodes_expanded = run.earlier[1].nodes_expanded

\* the second search() of an A* instance over the road A-C returns the path
\* it returned before with nodes_expanded 2, after 1 in the first call
C37_SecondCallAddsToTheFirst ==
    /\ Done("A*")
    /\ run.goal = "C"
    /\ Returned
    /\ Len(run.earlier) = 1
    /\ run.earlier[1] = [outcome |-> "returned", nodes_expanded |-> 1]
    /\ run.result.path = <<"A", "C">>
    /\ run.result.nodes_expanded = 2

\* ---- C38 ----
EdgeStored(a, b) ==
    /\ a \in DOMAIN adjacency
    /\ \E i \in 1..Len(adjacency[a]) : adjacency[a][i][1] = b

StoredWeight(a, b) ==
    adjacency[a][CHOOSE i \in 1..Len(adjacency[a]) : adjacency[a][i][1] = b][2]

\* C38: get_distance(a, b) returns the stored weight when the edge a->b
\* exists; without such an edge, also when a has no adjacency entry at all, it
\* raises an error and leaves the graph as it was, adding no key to adjacency
C38_GetDistanceLeavesTheGraph ==
    [][\A a \in {"A", "B", "C", UnknownCity} : \A b \in EdgeEnds :
          CallGetDistance(a, b) =>
              /\ adjacency' = adjacency
              /\ DOMAIN adjacency' = DOMAIN adjacency
              /\ IF EdgeStored(a, b)
                 THEN /\ log'.outcome = "returned"
                      /\ log'.value = <<StoredWeight(a, b)>>
                 ELSE log'.outcome = "raised"]_vars

\* no add_city or add_edge was ever called on the graph, get_distance("C", ...)
\* has raised KeyError, and C is a key of adjacency with an empty row
C38_FailedLookupAddedAKey ==
    /\ log.op = "get_distance"
    /\ log.city = "C"
    /\ log.outcome = "raised"
    /\ log.error = "KeyError"
    /\ log.calls = 0
    /\ "C" \in DOMAIN adjacency
    /\ adjacency["C"] = <<>>

====
